---- MODULE Spec2Model ----
(***************************************************************************)
(* A model of src/src/stock_calculator.py: the ticker resolution engine    *)
(* (batch orchestrator, candidate selector, price validator) and main's    *)
(* control flow around it.                                                 *)
(*                                                                         *)
(* Text is modelled as a sequence of one-character strings wherever the    *)
(* code looks inside it (tickers, names, queries); exchange codes,         *)
(* security types, ISINs and currencies are only compared or tested for    *)
(* emptiness and stay atomic strings.  An optional value (Python's None)   *)
(* is the empty tuple None, a present one the one-element tuple Some(x).   *)
(***************************************************************************)
EXTENDS Integers, Sequences, FiniteSets, TLC

None == <<>>
Some(x) == <<x>>

\* dict.get(key) with the default None, for the optional fields of a dict.
Get(d, k) == IF k \in DOMAIN d THEN d[k] ELSE None

\* dict.get(key, default).
GetOr(d, k, dflt) == IF k \in DOMAIN d THEN d[k] ELSE dflt

Min(a, b) == IF a < b THEN a ELSE b

\* math.ceil(n / d) for n >= 0, d > 0.
CeilDiv(n, d) == (n + d - 1) \div d

----------------------------------------------------------------------------
(* Program constants *)

OPENFIGI_BATCH_SIZE == 10

\* Delays are held in tenths of a second: 2.5 s and 13.0 s.
OPENFIGI_MAPPING_DELAY_SECONDS == 25
OPENFIGI_SEARCH_DELAY_SECONDS == 130

LIST_S_VALID_SECURITY_TYPES == <<"Common Stock", "REIT", "ETP">>

\* Mutant of LIST_S_EXCHANGE_PRIORITY: the US exchange comes before London.
LIST_S_EXCHANGE_PRIORITY_USFirst ==
    <<"US", "LN", "UN", "UQ", "UM", "CN", "CT", "GF", "GR", "GY", "NA">>

LIST_S_EXCHANGE_PRIORITY ==
    <<"LN", "US", "UN", "UQ", "UM", "CN", "CT", "GF", "GR", "GY", "NA">>

\* x in list
InList(x, list) == \E i \in 1..Len(list) : list[i] = x

\* DICT_EXCHANGE_SUFFIX.get(code, "")
map_exchange_to_suffix(s_exchange_code) ==
    CASE s_exchange_code = "US" -> <<>>
      [] s_exchange_code = "UN" -> <<>>
      [] s_exchange_code = "UQ" -> <<>>
      [] s_exchange_code = "LN" -> <<".", "L">>
      [] s_exchange_code = "GY" -> <<".", "D", "E">>
      [] s_exchange_code = "FP" -> <<".", "P", "A">>
      [] s_exchange_code = "JP" -> <<".", "T">>
      [] s_exchange_code = "HK" -> <<".", "H", "K">>
      [] s_exchange_code = "AU" -> <<".", "A", "X">>
      [] s_exchange_code = "CN" -> <<".", "T", "O">>
      [] OTHER -> <<>>

----------------------------------------------------------------------------
(* Text helpers *)

\* Mutant of sanitise_ticker: one trailing slash is removed.
sanitise_ticker_OneSlash(s_ticker_raw) ==
    IF s_ticker_raw # <<>> /\ s_ticker_raw[Len(s_ticker_raw)] = "/"
    THEN SubSeq(s_ticker_raw, 1, Len(s_ticker_raw) - 1)
    ELSE s_ticker_raw

\* str.rstrip("/"): every trailing "/" removed.
RECURSIVE sanitise_ticker(_)
sanitise_ticker(s_ticker_raw) ==
    IF s_ticker_raw # <<>> /\ s_ticker_raw[Len(s_ticker_raw)] = "/"
    THEN sanitise_ticker(SubSeq(s_ticker_raw, 1, Len(s_ticker_raw) - 1))
    ELSE s_ticker_raw

\* str.lower() on one character of the model's alphabet.
LowerChar(c) ==
    CASE c = "A" -> "a"
      [] c = "B" -> "b"
      [] c = "C" -> "c"
      [] c = "S" -> "s"
      [] c = "M" -> "m"
      [] c = "H" -> "h"
      [] OTHER -> c

\* str.lower()
Lower(s) == [i \in 1..Len(s) |-> LowerChar(s[i])]

\* needle in haystack (Python's substring test; "" is in every string).
IsSubstring(needle, haystack) ==
    \E i \in 0..(Len(haystack) - Len(needle)) :
        \A j \in 1..Len(needle) : haystack[i + j] = needle[j]

----------------------------------------------------------------------------
(* Dates.  A date string in DATE_FORMAT (dd-mmm-yy) is the record of its    *)
(* three fields [dd, mon, yy]; mon = 0 stands for text strptime does not   *)
(* accept as a month.  A datetime is its proleptic Gregorian ordinal.      *)

IsLeap(y) == (y % 4 = 0 /\ y % 100 # 0) \/ y % 400 = 0

DaysInMonth(y, m) ==
    CASE m \in {1, 3, 5, 7, 8, 10, 12} -> 31
      [] m \in {4, 6, 9, 11} -> 30
      [] OTHER -> IF IsLeap(y) THEN 29 ELSE 28

DaysBeforeYear(y) ==
    365 * (y - 1) + ((y - 1) \div 4) - ((y - 1) \div 100) + ((y - 1) \div 400)

\* Days of the year before month m (datetime's _DAYS_BEFORE_MONTH).
DaysBeforeMonth(y, m) ==
    <<0, 31, 59, 90, 120, 151, 181, 212, 243, 273, 304, 334>>[m]
        + (IF m > 2 /\ IsLeap(y) THEN 1 ELSE 0)

\* %y of strptime: 69..99 are 1969..1999, 00..68 are 2000..2068.
FullYear(yy) == IF yy >= 69 THEN 1900 + yy ELSE 2000 + yy

\* datetime.strptime(s, DATE_FORMAT) raises ValueError unless this holds.
ValidDate(s) ==
    /\ s.mon \in 1..12
    /\ s.dd >= 1
    /\ s.dd <= DaysInMonth(FullYear(s.yy), s.mon)

\* datetime.strptime(s, DATE_FORMAT), for a string it accepts.
Strptime(s) ==
    DaysBeforeYear(FullYear(s.yy)) + DaysBeforeMonth(FullYear(s.yy), s.mon) + s.dd

\* The year of ordinal n lies between n / 366 and n / 365 + 1.
YearOf(n) ==
    CHOOSE y \in (n \div 366)..((n \div 365) + 1) :
        DaysBeforeYear(y) < n /\ n <= DaysBeforeYear(y + 1)

\* datetime.fromordinal(n) as year, month, day.
Civil(n) ==
    LET y == YearOf(n)
        r == n - DaysBeforeYear(y)
        m == CHOOSE k \in 1..12 :
                 DaysBeforeMonth(y, k) < r /\ r <= DaysBeforeMonth(y, k) + DaysInMonth(y, k)
    IN  [Y |-> y, m |-> m, d |-> r - DaysBeforeMonth(y, m)]

\* dt.strftime(DATE_FORMAT): the year keeps its last two digits only.
Strftime(n) ==
    LET c == Civil(n) IN [dd |-> c.d, mon |-> c.m, yy |-> c.Y % 100]

\* dt.strftime("%Y-%m-%d")
StrftimeYmd(n) == Civil(n)

\* dt.weekday(): 0 is Monday, 6 is Sunday.
Weekday(n) == (n + 6) % 7

\* Mutant of adjust_to_trading_day: a Saturday is moved by one day.
adjust_to_trading_day_SaturdayPlus1(s_date, b_return_flag) ==
    LET dt_date == Strptime(s_date)
        n_weekday == Weekday(dt_date)
        dt_adjusted == IF n_weekday \in {5, 6} THEN dt_date + 1 ELSE dt_date
        b_was_adjusted == n_weekday = 5 \/ n_weekday = 6
        s_adjusted_date == Strftime(dt_adjusted)
    IN  IF b_return_flag THEN <<s_adjusted_date, b_was_adjusted>>
        ELSE s_adjusted_date

\* Mutant of adjust_to_trading_day: a Sunday is moved like a Saturday.
adjust_to_trading_day_SundayPlus2(s_date, b_return_flag) ==
    LET dt_date == Strptime(s_date)
        n_weekday == Weekday(dt_date)
        dt_adjusted == IF n_weekday \in {5, 6} THEN dt_date + 2 ELSE dt_date
        b_was_adjusted == n_weekday = 5 \/ n_weekday = 6
        s_adjusted_date == Strftime(dt_adjusted)
    IN  IF b_return_flag THEN <<s_adjusted_date, b_was_adjusted>>
        ELSE s_adjusted_date

\* adjust_to_trading_day for a string strptime accepts (it raises otherwise).
adjust_to_trading_day(s_date, b_return_flag) ==
    LET dt_date == Strptime(s_date)
        n_weekday == Weekday(dt_date)
        dt_adjusted == IF n_weekday = 5 THEN dt_date + 2
                       ELSE IF n_weekday = 6 THEN dt_date + 1
                       ELSE dt_date
        b_was_adjusted == n_weekday = 5 \/ n_weekday = 6
        s_adjusted_date == Strftime(dt_adjusted)
    IN  IF b_return_flag THEN <<s_adjusted_date, b_was_adjusted>>
        ELSE s_adjusted_date

----------------------------------------------------------------------------
(* Output file versioning.  A file name of the output directory is the     *)
(* record of its version suffix: none for DEFAULT_OUTPUT_FILENAME, n for   *)
(* stock_changes_output_v{n}.csv.  The directory is the set of the names   *)
(* that exist in it, so os.path.exists(os.path.join(dir, name)) is         *)
(* name \in dir.                                                           *)

DEFAULT_OUTPUT_FILENAME == [name |-> "stock_changes_output", version |-> <<>>]

\* f"stock_changes_output_v{n_version}.csv"
VersionedName(n_version) == [name |-> "stock_changes_output", version |-> <<n_version>>]

\* The while True loop of lines 911-918.
RECURSIVE NextAvailableVersion(_, _)
NextAvailableVersion(dir, n_version) ==
    IF VersionedName(n_version) \notin dir
    THEN VersionedName(n_version)
    ELSE NextAvailableVersion(dir, n_version + 1)

\* Mutant of generate_output_filename: the default name is not tried.
generate_output_filename_AlwaysVersioned(dir) == NextAvailableVersion(dir, 1)

generate_output_filename(dir) ==
    IF DEFAULT_OUTPUT_FILENAME \notin dir
    THEN DEFAULT_OUTPUT_FILENAME
    ELSE NextAvailableVersion(dir, 1)

----------------------------------------------------------------------------
(* The price provider (yfinance) as the code sees it.  For one ticker its  *)
(* behaviour is what the start-window history query, the end-window        *)
(* history query and the info lookup do: a history query raises or returns *)
(* a list of closes (in thousandths), info raises or returns a dict.       *)

Raises == [raises |-> TRUE]
Returns(v) == [raises |-> FALSE, value |-> v]

\* round(x, 2) on a price held in thousandths (ties to even).
Round2(p) ==
    LET q == p \div 10
        r == p % 10
    IN  10 * (IF r > 5 \/ (r = 5 /\ q % 2 = 1) THEN q + 1 ELSE q)

HistoryCall(s_ticker, dt_begin) ==
    [op |-> "history", ticker |-> s_ticker,
     start |-> StrftimeYmd(dt_begin), end |-> StrftimeYmd(dt_begin + 5)]

InfoCall(s_ticker) == [op |-> "info", ticker |-> s_ticker]

\* Mutant of QueryProvider: an empty start window does not return at once;
\* the end window is queried as well.
QueryProvider_NoEarlyReturn(prov, s_ticker, dt_start, dt_end) ==
    IF prov.startHist.raises
    THEN [ret |-> [b_valid |-> FALSE], calls |-> <<HistoryCall(s_ticker, dt_start)>>]
    ELSE IF prov.endHist.raises \/ prov.endHist.value = <<>>
            \/ prov.startHist.value = <<>>
    THEN [ret |-> [b_valid |-> FALSE],
          calls |-> <<HistoryCall(s_ticker, dt_start), HistoryCall(s_ticker, dt_end)>>]
    ELSE [ret |-> IF prov.info.raises
                  THEN [b_valid |-> FALSE]
                  ELSE [b_valid |-> TRUE,
                        n_start_price |-> Some(Round2(prov.startHist.value[1])),
                        n_end_price |-> Some(Round2(prov.endHist.value[1])),
                        s_currency |-> Some(GetOr(prov.info.value, "currency", "N/A"))],
          calls |-> <<HistoryCall(s_ticker, dt_start), HistoryCall(s_ticker, dt_end),
                      InfoCall(s_ticker)>>]

\* validate_ticker_and_fetch_prices, lines 960-985: the two history queries
\* and the info lookup, for the parsed adjusted dates.  ret is the returned
\* dict, calls the provider calls made, in order; a call that raises ends in
\* the except branch.
QueryProvider(prov, s_ticker, dt_start, dt_end) ==
    IF prov.startHist.raises \/ prov.startHist.value = <<>>
    THEN [ret |-> [b_valid |-> FALSE], calls |-> <<HistoryCall(s_ticker, dt_start)>>]
    ELSE IF prov.endHist.raises \/ prov.endHist.value = <<>>
    THEN [ret |-> [b_valid |-> FALSE],
          calls |-> <<HistoryCall(s_ticker, dt_start), HistoryCall(s_ticker, dt_end)>>]
    ELSE [ret |-> IF prov.info.raises
                  THEN [b_valid |-> FALSE]
                  ELSE [b_valid |-> TRUE,
                        n_start_price |-> Some(Round2(prov.startHist.value[1])),
                        n_end_price |-> Some(Round2(prov.endHist.value[1])),
                        s_currency |-> Some(GetOr(prov.info.value, "currency", "N/A"))],
          calls |-> <<HistoryCall(s_ticker, dt_start), HistoryCall(s_ticker, dt_end),
                      InfoCall(s_ticker)>>]

\* Lines 949-957 onwards, for the adjusted date strings: strptime raising
\* ends in the except branch.
ValidateAdjusted(prov, s_ticker, s_adjusted_start_date, s_adjusted_end_date) ==
    IF ~ValidDate(s_adjusted_start_date) \/ ~ValidDate(s_adjusted_end_date)
    THEN [ret |-> [b_valid |-> FALSE], calls |-> <<>>]
    ELSE QueryProvider(prov, s_ticker, Strptime(s_adjusted_start_date),
                       Strptime(s_adjusted_end_date))

\* validate_ticker_and_fetch_prices: every exception inside, the ValueError
\* of adjust_to_trading_day included, ends in the except branch.
validate_ticker_and_fetch_prices(prov, s_ticker, s_start_date, s_end_date) ==
    IF ~ValidDate(s_start_date) \/ ~ValidDate(s_end_date)
    THEN [ret |-> [b_valid |-> FALSE], calls |-> <<>>]
    ELSE ValidateAdjusted(prov, s_ticker,
                          adjust_to_trading_day(s_start_date, FALSE),
                          adjust_to_trading_day(s_end_date, FALSE))

\* What the provider does for a ticker it has no record of: no price data.
UnknownTicker ==
    [startHist |-> Returns(<<>>), endHist |-> Returns(<<>>), info |-> Returns([none |-> TRUE])]

ProvOf(yf, s_ticker) == IF s_ticker \in DOMAIN yf THEN yf[s_ticker] ELSE UnknownTicker

----------------------------------------------------------------------------
(* HTTP responses of the OpenFIGI endpoints as the code sees them:         *)
(* requests.post raises (transport), or returns a status code, headers and *)
(* a JSON body.                                                            *)

Transport == [transport |-> TRUE]
Http(n_status, dict_headers, body) ==
    [transport |-> FALSE, status_code |-> n_status, headers |-> dict_headers, body |-> body]

\* Mutant of ApiErrorOf: 429 is reported like any other error status.
ApiErrorOf_NoRateLimit(response_api, s_endpoint) ==
    IF response_api.transport
    THEN [exc |-> "ApiError", msg |-> "unreachable"]
    ELSE [exc |-> "ApiError", msg |-> "error status", status |-> response_api.status_code]

\* The ApiError raised for a failed request (lines 659-680 and 506-527); the
\* message is kept as the fields that distinguish it.
ApiErrorOf(response_api, s_endpoint) ==
    IF response_api.transport
    THEN [exc |-> "ApiError", msg |-> "unreachable"]
    ELSE IF response_api.status_code = 429
    THEN [exc |-> "ApiError", msg |-> "rate limit exceeded", endpoint |-> s_endpoint,
          limit |-> GetOr(response_api.headers, "ratelimit-limit", "unknown"),
          remaining |-> GetOr(response_api.headers, "ratelimit-remaining", "unknown"),
          reset |-> GetOr(response_api.headers, "ratelimit-reset", "unknown")]
    ELSE [exc |-> "ApiError", msg |-> "error status", status |-> response_api.status_code]

\* Mutant of RequestFails: only a transport error and 429 raise; any other
\* status is read as a response.
RequestFails_Only429(response_api) ==
    response_api.transport \/ response_api.status_code = 429

RequestFails(response_api) ==
    response_api.transport \/ response_api.status_code # 200

----------------------------------------------------------------------------
(* Candidate Filter & Priority Selector *)

\* Mutant of PassesFilters: the security type is not looked at.
PassesFilters_NoTypeCheck(dict_api_result, s_priority_exchange_code, s_search_query) ==
    /\ GetOr(dict_api_result, "exchCode", "") = s_priority_exchange_code
    /\ IsSubstring(Lower(s_search_query), Lower(GetOr(dict_api_result, "name", <<>>)))

\* The three filter conditions of select_and_validate_best_result for one
\* candidate and one priority exchange.
PassesFilters(dict_api_result, s_priority_exchange_code, s_search_query) ==
    LET s_security_type == GetOr(dict_api_result, "securityType", "")
        s_security_type2 == GetOr(dict_api_result, "securityType2", "")
        s_exchange_code == GetOr(dict_api_result, "exchCode", "")
        s_result_name == GetOr(dict_api_result, "name", <<>>)
        b_has_valid_security_type ==
            InList(s_security_type, LIST_S_VALID_SECURITY_TYPES)
            \/ InList(s_security_type2, LIST_S_VALID_SECURITY_TYPES)
        b_matches_priority_exchange == s_exchange_code = s_priority_exchange_code
        b_query_in_name == IsSubstring(Lower(s_search_query), Lower(s_result_name))
    IN  b_has_valid_security_type /\ b_matches_priority_exchange /\ b_query_in_name

\* The full ticker built for a candidate or a mapping entry.
FullTickerOf(dict_entry) ==
    sanitise_ticker(GetOr(dict_entry, "ticker", <<>>))
        \o map_exchange_to_suffix(GetOr(dict_entry, "exchCode", ""))

\* The dict returned for a candidate the validator accepted (lines 463-471).
SelectedCandidate(dict_api_result, s_full_ticker, dict_validation) ==
    [ticker |-> sanitise_ticker(GetOr(dict_api_result, "ticker", <<>>)),
     exchCode |-> GetOr(dict_api_result, "exchCode", ""),
     name |-> GetOr(dict_api_result, "name", <<>>),
     s_full_ticker |-> s_full_ticker,
     n_start_price |-> Get(dict_validation, "n_start_price"),
     n_end_price |-> Get(dict_validation, "n_end_price"),
     s_currency |-> Get(dict_validation, "s_currency")]

\* One validator call as the scan records it: the candidate's position, its
\* tier, the ticker validated and the provider calls made.
Validation(n_pos, n_tier, s_full_ticker, validation) ==
    [pos |-> n_pos, tier |-> n_tier, ticker |-> s_full_ticker, calls |-> validation.calls]

\* Mutant of SelectValidated: the candidate is returned whatever the
\* validator answered.
SelectValidated_Unvalidated(prices, list_dict_api_results, s_search_query, d_start, d_end, n_tier, n_pos, validated, s_full_ticker, validation) ==
    [ret |-> Some(SelectedCandidate(list_dict_api_results[n_pos], s_full_ticker,
                                    validation.ret)),
     validated |-> Append(validated, Validation(n_pos, n_tier, s_full_ticker, validation))]

\* The two nested loops from position (n_tier, n_pos) on; validated lists
\* the validator calls made so far.
RECURSIVE SelectScan(_, _, _, _, _, _, _, _)
RECURSIVE SelectValidated(_, _, _, _, _, _, _, _, _, _)
SelectScan(prices, list_dict_api_results, s_search_query, d_start, d_end, n_tier, n_pos, validated) ==
    IF n_tier > Len(LIST_S_EXCHANGE_PRIORITY)
    THEN [ret |-> None, validated |-> validated]
    ELSE IF n_pos > Len(list_dict_api_results)
    THEN SelectScan(prices, list_dict_api_results, s_search_query, d_start, d_end,
                    n_tier + 1, 1, validated)
    ELSE IF PassesFilters(list_dict_api_results[n_pos], LIST_S_EXCHANGE_PRIORITY[n_tier],
                          s_search_query)
    THEN SelectValidated(
             prices, list_dict_api_results, s_search_query, d_start, d_end,
             n_tier, n_pos, validated,
             FullTickerOf(list_dict_api_results[n_pos]),
             validate_ticker_and_fetch_prices(
                 ProvOf(prices, FullTickerOf(list_dict_api_results[n_pos])),
                 FullTickerOf(list_dict_api_results[n_pos]), d_start, d_end))
    ELSE SelectScan(prices, list_dict_api_results, s_search_query, d_start, d_end,
                    n_tier, n_pos + 1, validated)

\* Mutant of SelectValidated: a candidate that fails validation ends its
\* tier, and the scan goes on with the next one.
SelectValidated_NextTier(prices, list_dict_api_results, s_search_query, d_start, d_end, n_tier, n_pos, validated, s_full_ticker, validation) ==
    IF GetOr(validation.ret, "b_valid", FALSE)
    THEN [ret |-> Some(SelectedCandidate(list_dict_api_results[n_pos], s_full_ticker,
                                         validation.ret)),
          validated |-> Append(validated,
                               Validation(n_pos, n_tier, s_full_ticker, validation))]
    ELSE SelectScan(prices, list_dict_api_results, s_search_query, d_start, d_end,
                    n_tier + 1, 1,
                    Append(validated, Validation(n_pos, n_tier, s_full_ticker, validation)))

\* The scan after the validator answered for candidate n_pos: return it if
\* valid, go on with the next candidate if not.
SelectValidated(prices, list_dict_api_results, s_search_query, d_start, d_end, n_tier, n_pos, validated, s_full_ticker, validation) ==
    IF GetOr(validation.ret, "b_valid", FALSE)
    THEN [ret |-> Some(SelectedCandidate(list_dict_api_results[n_pos], s_full_ticker,
                                         validation.ret)),
          validated |-> Append(validated,
                               Validation(n_pos, n_tier, s_full_ticker, validation))]
    ELSE SelectScan(prices, list_dict_api_results, s_search_query, d_start, d_end,
                    n_tier, n_pos + 1,
                    Append(validated, Validation(n_pos, n_tier, s_full_ticker, validation)))

select_and_validate_best_result(prices, list_dict_api_results, s_search_query, d_start, d_end) ==
    SelectScan(prices, list_dict_api_results, s_search_query, d_start, d_end, 1, 1, <<>>)

NotFoundLookup ==
    [s_ticker |-> <<>>, s_exchange_code |-> "", s_full_ticker |-> <<>>, b_not_found |-> TRUE]

\* The dict resolve_ticker_with_prices returns for what the selector gave.
LookupOfSelection(sel) ==
    IF sel.ret = None
    THEN [ret |-> NotFoundLookup, validated |-> sel.validated]
    ELSE [ret |-> [s_ticker |-> GetOr(sel.ret[1], "ticker", <<>>),
                   s_exchange_code |-> GetOr(sel.ret[1], "exchCode", ""),
                   s_full_ticker |-> GetOr(sel.ret[1], "s_full_ticker", <<>>),
                   b_not_found |-> FALSE,
                   n_start_price |-> Get(sel.ret[1], "n_start_price"),
                   n_end_price |-> Get(sel.ret[1], "n_end_price"),
                   s_currency |-> Get(sel.ret[1], "s_currency")],
          validated |-> sel.validated]

\* resolve_ticker_with_prices once the search request returned status 200
\* with JSON body dict_response.
resolve_ticker_with_prices(prices, dict_response, s_stock_name, d_start, d_end) ==
    IF "data" \notin DOMAIN dict_response \/ Len(dict_response.data) = 0
    THEN [ret |-> NotFoundLookup, validated |-> <<>>]
    ELSE LookupOfSelection(select_and_validate_best_result(
             prices, dict_response.data, s_stock_name, d_start, d_end))

----------------------------------------------------------------------------
(* Batch Resolution Orchestrator: the pieces of                            *)
(* resolve_tickers_batch_with_prices.                                      *)

\* The None placeholder appended for a stock that still needs a lookup.
Placeholder == [placeholder |-> TRUE]

\* Mutant of SkippedResult: a skipped stock is marked not found as well.
SkippedResult_MarkedNotFound(s_ticker) ==
    [s_ticker |-> s_ticker, s_exchange_code |-> "", s_full_ticker |-> <<>>,
     b_not_found |-> TRUE, b_skipped |-> TRUE,
     n_start_price |-> None, n_end_price |-> None, s_currency |-> None]

SkippedResult(s_ticker) ==
    [s_ticker |-> s_ticker, s_exchange_code |-> "", s_full_ticker |-> <<>>,
     b_not_found |-> FALSE, b_skipped |-> TRUE,
     n_start_price |-> None, n_end_price |-> None, s_currency |-> None]

NotFoundResult ==
    [s_ticker |-> <<>>, s_exchange_code |-> "", s_full_ticker |-> <<>>,
     b_not_found |-> TRUE, b_skipped |-> FALSE,
     n_start_price |-> None, n_end_price |-> None, s_currency |-> None]

\* Mutant of Category: the ISIN is looked at before the ticker.
Category_IsinFirst(dict_stock) ==
    IF GetOr(dict_stock, "s_isin", <<>>) # <<>> THEN "isin"
    ELSE IF GetOr(dict_stock, "s_ticker", <<>>) # <<>> THEN "skip"
    ELSE "name"

\* if s_ticker / elif s_isin / else, for one stock.
Category(dict_stock) ==
    IF GetOr(dict_stock, "s_ticker", <<>>) # <<>> THEN "skip"
    ELSE IF GetOr(dict_stock, "s_isin", <<>>) # <<>> THEN "isin"
    ELSE "name"

\* The categorising loop: the result list with its placeholders.
CategorisedResults(list_dict_stocks) ==
    [i \in 1..Len(list_dict_stocks) |->
        IF Category(list_dict_stocks[i]) = "skip"
        THEN SkippedResult(list_dict_stocks[i].s_ticker)
        ELSE Placeholder]

\* Mutant of IndicesOf: the positions are listed last to first.
RECURSIVE IndicesOf_LastFirst(_, _, _)
IndicesOf_LastFirst(list_dict_stocks, s_category, n_from) ==
    IF n_from > Len(list_dict_stocks) THEN <<>>
    ELSE IF Category(list_dict_stocks[n_from]) = s_category
    THEN IndicesOf_LastFirst(list_dict_stocks, s_category, n_from + 1) \o <<n_from>>
    ELSE IndicesOf_LastFirst(list_dict_stocks, s_category, n_from + 1)

\* The positions, in input order, of the stocks of one category.
RECURSIVE IndicesOf(_, _, _)
IndicesOf(list_dict_stocks, s_category, n_from) ==
    IF n_from > Len(list_dict_stocks) THEN <<>>
    ELSE IF Category(list_dict_stocks[n_from]) = s_category
    THEN <<n_from>> \o IndicesOf(list_dict_stocks, s_category, n_from + 1)
    ELSE IndicesOf(list_dict_stocks, s_category, n_from + 1)

\* Mutant of BatchQuery: a batch ends one stock late.
BatchQuery_OneMore(list_dict_stocks, list_n_isin_indices, n_batch_index) ==
    LET n_start_index == n_batch_index * OPENFIGI_BATCH_SIZE
        n_end_index == Min(n_start_index + OPENFIGI_BATCH_SIZE + 1,
                           Len(list_n_isin_indices))
    IN  [k \in 1..(n_end_index - n_start_index) |->
            [idType |-> "ID_ISIN",
             idValue |-> list_dict_stocks[list_n_isin_indices[n_start_index + k]].s_isin]]

\* The query payload of batch n_batch_index (0-based): the ISINs of the ISIN
\* stocks n_start_index .. n_end_index - 1.
BatchQuery(list_dict_stocks, list_n_isin_indices, n_batch_index) ==
    LET n_start_index == n_batch_index * OPENFIGI_BATCH_SIZE
        n_end_index == Min(n_start_index + OPENFIGI_BATCH_SIZE, Len(list_n_isin_indices))
    IN  [k \in 1..(n_end_index - n_start_index) |->
            [idType |-> "ID_ISIN",
             idValue |-> list_dict_stocks[list_n_isin_indices[n_start_index + k]].s_isin]]

\* Mutant of ValidatedEntryResult: a ticker the validator rejected is kept
\* on the not-found record.
ValidatedEntryResult_KeepsTicker(s_ticker, s_exchange_code, s_full_ticker, validation) ==
    [result |->
        IF GetOr(validation.ret, "b_valid", FALSE)
        THEN [s_ticker |-> s_ticker,
              s_exchange_code |-> s_exchange_code,
              s_full_ticker |-> s_full_ticker,
              b_not_found |-> FALSE, b_skipped |-> FALSE,
              n_start_price |-> Get(validation.ret, "n_start_price"),
              n_end_price |-> Get(validation.ret, "n_end_price"),
              s_currency |-> Get(validation.ret, "s_currency")]
        ELSE [NotFoundResult EXCEPT !.s_ticker = s_ticker],
     validated |-> <<[ticker |-> s_full_ticker, calls |-> validation.calls]>>]

\* The result written for a mapping entry once the validator answered
\* (lines 715-737), with the validator call made.
ValidatedEntryResult(s_ticker, s_exchange_code, s_full_ticker, validation) ==
    [result |->
        IF GetOr(validation.ret, "b_valid", FALSE)
        THEN [s_ticker |-> s_ticker,
              s_exchange_code |-> s_exchange_code,
              s_full_ticker |-> s_full_ticker,
              b_not_found |-> FALSE, b_skipped |-> FALSE,
              n_start_price |-> Get(validation.ret, "n_start_price"),
              n_end_price |-> Get(validation.ret, "n_end_price"),
              s_currency |-> Get(validation.ret, "s_currency")]
        ELSE NotFoundResult,
     validated |-> <<[ticker |-> s_full_ticker, calls |-> validation.calls]>>]

\* Lines 701-713: the first data entry's ticker, sanitised and suffixed, goes
\* to the validator.
FirstEntryResult(prices, s_ticker, s_exchange_code, s_full_ticker, d_start, d_end) ==
    ValidatedEntryResult(
        s_ticker, s_exchange_code, s_full_ticker,
        validate_ticker_and_fetch_prices(ProvOf(prices, s_full_ticker), s_full_ticker,
                                         d_start, d_end))

\* Mutant of MappingElementResult: the last data entry is taken.
MappingElementResult_LastEntry(prices, dict_response, d_start, d_end) ==
    IF \/ "warning" \in DOMAIN dict_response
       \/ "error" \in DOMAIN dict_response
       \/ "data" \notin DOMAIN dict_response
       \/ Len(dict_response.data) = 0
    THEN [result |-> NotFoundResult, validated |-> <<>>]
    ELSE FirstEntryResult(
             prices,
             sanitise_ticker(GetOr(dict_response.data[Len(dict_response.data)],
                                   "ticker", <<>>)),
             GetOr(dict_response.data[Len(dict_response.data)], "exchCode", ""),
             FullTickerOf(dict_response.data[Len(dict_response.data)]),
             d_start, d_end)

\* The result written for one element of a mapping response, with the
\* validator call it made (if any).
MappingElementResult(prices, dict_response, d_start, d_end) ==
    IF \/ "warning" \in DOMAIN dict_response
       \/ "error" \in DOMAIN dict_response
       \/ "data" \notin DOMAIN dict_response
       \/ Len(dict_response.data) = 0
    THEN [result |-> NotFoundResult, validated |-> <<>>]
    ELSE FirstEntryResult(
             prices,
             sanitise_ticker(GetOr(dict_response.data[1], "ticker", <<>>)),
             GetOr(dict_response.data[1], "exchCode", ""),
             FullTickerOf(dict_response.data[1]),
             d_start, d_end)

ValidateEvents(n_original_index, validated) ==
    [k \in 1..Len(validated) |->
        [ev |-> "validate", index |-> n_original_index,
         ticker |-> validated[k].ticker, calls |-> validated[k].calls]]

\* The loop over the elements of one mapping response, from element
\* n_response_index (0-based) on.  An element beyond the ISIN list makes
\* list_n_isin_indices[...] raise IndexError, which nothing catches.
RECURSIVE ParseMappingResponse(_, _, _, _, _, _, _, _, _)
RECURSIVE ParseElement(_, _, _, _, _, _, _, _, _, _, _)
ParseMappingResponse(prices, list_dict_response, isin_indices, n_start_index, d_start, d_end, n_response_index, results, log) ==
    IF n_response_index >= Len(list_dict_response)
    THEN [results |-> results, events |-> log, raised |-> FALSE]
    ELSE IF n_start_index + n_response_index >= Len(isin_indices)
    THEN [results |-> results, events |-> log, raised |-> TRUE]
    ELSE ParseElement(
             prices, list_dict_response, isin_indices, n_start_index, d_start, d_end,
             n_response_index, results, log,
             isin_indices[n_start_index + n_response_index + 1],
             MappingElementResult(prices, list_dict_response[n_response_index + 1],
                                  d_start, d_end))

\* The loop body's writes for element n_response_index, then the next pass.
ParseElement(prices, list_dict_response, isin_indices, n_start_index, d_start, d_end, n_response_index, results, log, n_original_index, elem) ==
    ParseMappingResponse(
        prices, list_dict_response, isin_indices, n_start_index, d_start, d_end,
        n_response_index + 1,
        [results EXCEPT ![n_original_index] = elem.result],
        log \o ValidateEvents(n_original_index, elem.validated))

\* The result written for a name-only stock from resolve_ticker_with_prices'
\* return value.
NameResult(dict_lookup_result) ==
    [s_ticker |-> GetOr(dict_lookup_result, "s_ticker", <<>>),
     s_exchange_code |-> GetOr(dict_lookup_result, "s_exchange_code", ""),
     s_full_ticker |-> GetOr(dict_lookup_result, "s_full_ticker", <<>>),
     b_not_found |-> GetOr(dict_lookup_result, "b_not_found", TRUE),
     b_skipped |-> FALSE,
     n_start_price |-> Get(dict_lookup_result, "n_start_price"),
     n_end_price |-> Get(dict_lookup_result, "n_end_price"),
     s_currency |-> Get(dict_lookup_result, "s_currency")]

----------------------------------------------------------------------------
(* resolve_all_tickers: the loop that writes the lookup results into the   *)
(* caller's stock dictionaries.                                            *)

\* dict[key] = value for each key of upd.
Assign(d, upd) == upd @@ d

\* Mutant of MergedStock: the currency is not stored with the prices.
MergedStock_NoCurrency(dict_stock, dict_lookup_result) ==
    IF GetOr(dict_lookup_result, "b_skipped", FALSE)
    THEN dict_stock
    ELSE IF GetOr(dict_lookup_result, "b_not_found", FALSE)
    THEN Assign(dict_stock, [s_ticker |-> <<>>, b_not_found |-> TRUE])
    ELSE Assign(dict_stock,
                [s_ticker |-> GetOr(dict_lookup_result, "s_full_ticker", <<>>),
                 b_not_found |-> FALSE,
                 n_start_price |-> Get(dict_lookup_result, "n_start_price"),
                 n_end_price |-> Get(dict_lookup_result, "n_end_price")])

MergedStock(dict_stock, dict_lookup_result) ==
    IF GetOr(dict_lookup_result, "b_skipped", FALSE)
    THEN dict_stock
    ELSE IF GetOr(dict_lookup_result, "b_not_found", FALSE)
    THEN Assign(dict_stock, [s_ticker |-> <<>>, b_not_found |-> TRUE])
    ELSE Assign(dict_stock,
                [s_ticker |-> GetOr(dict_lookup_result, "s_full_ticker", <<>>),
                 b_not_found |-> FALSE,
                 n_start_price |-> Get(dict_lookup_result, "n_start_price"),
                 n_end_price |-> Get(dict_lookup_result, "n_end_price"),
                 s_currency |-> Get(dict_lookup_result, "s_currency")])

\* The update loop from position n_index on.  A None entry has no .get:
\* AttributeError, which nothing catches; the stocks before it stay written.
RECURSIVE MergeLoop(_, _, _)
MergeLoop(list_dict_stocks, list_dict_lookup_results, n_index) ==
    IF n_index > Len(list_dict_lookup_results)
    THEN [stocks |-> list_dict_stocks, raised |-> FALSE]
    ELSE IF list_dict_lookup_results[n_index] = Placeholder
    THEN [stocks |-> list_dict_stocks, raised |-> TRUE]
    ELSE MergeLoop(
            [list_dict_stocks EXCEPT
                ![n_index] = MergedStock(@, list_dict_lookup_results[n_index])],
            list_dict_lookup_results, n_index + 1)

----------------------------------------------------------------------------
(* Per-Stock Processor *)

\* round(n / d, 0) to the nearest integer, ties to even, for d > 0.
RoundDiv(n, d) ==
    LET q == n \div d
        r == n % d
    IN  IF 2 * r > d \/ (2 * r = d /\ q % 2 # 0) THEN q + 1 ELSE q

\* Mutant of calculate_percentage_change: the change is divided by the end
\* price.
calculate_percentage_change_OverEnd(n_start_price, n_end_price) ==
    IF n_end_price = 0
    THEN [finite |-> FALSE, value |-> "nan"]
    ELSE [finite |-> TRUE, num |-> (n_end_price - n_start_price) * 100, den |-> n_end_price]

\* calculate_percentage_change, lines 272-285: the quotient is kept as the
\* fraction num / den.  The prices main passes are numpy floats, whose
\* division by zero gives inf or nan and no exception.
calculate_percentage_change(n_start_price, n_end_price) ==
    IF n_start_price = 0
    THEN [finite |-> FALSE,
          value |-> IF n_end_price > 0 THEN "inf"
                    ELSE IF n_end_price < 0 THEN "-inf" ELSE "nan"]
    ELSE [finite |-> TRUE, num |-> (n_end_price - n_start_price) * 100, den |-> n_start_price]

\* round(n_percentage, 2), lines 1185 and 1224: the percentage in hundredths
\* of a percent; inf and nan stay as they are.
RoundPercentage(n_percentage) ==
    IF ~n_percentage.finite THEN n_percentage
    ELSE [finite |-> TRUE,
          value |-> IF n_percentage.den > 0
                    THEN RoundDiv(n_percentage.num * 100, n_percentage.den)
                    ELSE RoundDiv(-n_percentage.num * 100, -n_percentage.den)]

BlankResult(dict_stock) ==
    [s_name |-> GetOr(dict_stock, "s_name", <<>>),
     s_ticker |-> GetOr(dict_stock, "s_ticker", <<>>),
     s_isin |-> GetOr(dict_stock, "s_isin", <<>>),
     n_start_price |-> None, n_end_price |-> None, n_percentage |-> None,
     s_currency |-> "", s_error |-> ""]

AdjustmentNotes(s_name, adj_start, adj_end) ==
    (IF adj_start[2]
     THEN <<[note |-> "Start date adjusted to", date |-> adj_start[1], name |-> s_name]>>
     ELSE <<>>)
    \o (IF adj_end[2]
        THEN <<[note |-> "End date adjusted to", date |-> adj_end[1], name |-> s_name]>>
        ELSE <<>>)

\* Mutant of FetchLive: the end price is fetched before the start price.
FetchLive_EndFirst(prov, s_ticker, dict_result, notes, q_start, q_end) ==
    IF prov.endHist.raises
    THEN [raised |-> TRUE, exc |-> "Exception", calls |-> <<q_end>>]
    ELSE IF prov.endHist.value = <<>>
    THEN [raised |-> FALSE, notes |-> notes, calls |-> <<q_end>>,
          result |-> [dict_result EXCEPT !.s_error = "Delisted"]]
    ELSE IF prov.startHist.raises
    THEN [raised |-> TRUE, exc |-> "Exception", calls |-> <<q_end, q_start>>]
    ELSE IF prov.startHist.value = <<>>
    THEN [raised |-> FALSE, notes |-> notes, calls |-> <<q_end, q_start>>,
          result |-> [dict_result EXCEPT !.s_error = "Delisted"]]
    ELSE IF prov.info.raises
    THEN [raised |-> TRUE, exc |-> "Exception",
          calls |-> <<q_end, q_start, InfoCall(s_ticker)>>]
    ELSE [raised |-> FALSE, notes |-> notes,
          calls |-> <<q_end, q_start, InfoCall(s_ticker)>>,
          result |-> [dict_result EXCEPT
              !.n_start_price = Some(Round2(prov.startHist.value[1])),
              !.n_end_price = Some(Round2(prov.endHist.value[1])),
              !.n_percentage = Some(RoundPercentage(calculate_percentage_change(
                                   prov.startHist.value[1], prov.endHist.value[1]))),
              !.s_currency = GetOr(prov.info.value, "currency", "N/A")]]

\* Lines 1206-1226: fetch both prices and the currency.  Only
\* StockDelistedError (an empty window) is caught.
FetchLive(prov, s_ticker, dict_result, notes, q_start, q_end) ==
    IF prov.startHist.raises
    THEN [raised |-> TRUE, exc |-> "Exception", calls |-> <<q_start>>]
    ELSE IF prov.startHist.value = <<>>
    THEN [raised |-> FALSE, notes |-> notes, calls |-> <<q_start>>,
          result |-> [dict_result EXCEPT !.s_error = "Delisted"]]
    ELSE IF prov.endHist.raises
    THEN [raised |-> TRUE, exc |-> "Exception", calls |-> <<q_start, q_end>>]
    ELSE IF prov.endHist.value = <<>>
    THEN [raised |-> FALSE, notes |-> notes, calls |-> <<q_start, q_end>>,
          result |-> [dict_result EXCEPT !.s_error = "Delisted"]]
    ELSE IF prov.info.raises
    THEN [raised |-> TRUE, exc |-> "Exception",
          calls |-> <<q_start, q_end, InfoCall(s_ticker)>>]
    ELSE [raised |-> FALSE, notes |-> notes,
          calls |-> <<q_start, q_end, InfoCall(s_ticker)>>,
          result |-> [dict_result EXCEPT
              !.n_start_price = Some(Round2(prov.startHist.value[1])),
              !.n_end_price = Some(Round2(prov.endHist.value[1])),
              !.n_percentage = Some(RoundPercentage(calculate_percentage_change(
                                   prov.startHist.value[1], prov.endHist.value[1]))),
              !.s_currency = GetOr(prov.info.value, "currency", "N/A")]]

\* Lines 1190-1204: adjust both dates and note each adjustment.
ProcessLive(prov, s_name, s_ticker, dict_result, adj_start, adj_end) ==
    FetchLive(prov, s_ticker, dict_result, AdjustmentNotes(s_name, adj_start, adj_end),
              HistoryCall(s_ticker, Strptime(adj_start[1])),
              HistoryCall(s_ticker, Strptime(adj_end[1])))

\* Lines 1172-1188: the result from the prices cached by resolution.
ProcessCached(dict_result, n_start_price, n_end_price, s_currency) ==
    [raised |-> FALSE, notes |-> <<>>, calls |-> <<>>,
     result |-> [dict_result EXCEPT
         !.n_start_price = Some(Round2(n_start_price)),
         !.n_end_price = Some(Round2(n_end_price)),
         !.n_percentage = Some(RoundPercentage(
                              calculate_percentage_change(n_start_price, n_end_price))),
         !.s_currency = s_currency]]

\* Mutant of process_stock: the cached prices are looked at before the
\* not-found flag.
process_stock_CacheFirst(prices, dict_stock, d_start, d_end) ==
    IF /\ Get(dict_stock, "n_start_price") # None
       /\ Get(dict_stock, "n_end_price") # None
       /\ Get(dict_stock, "s_currency") # None
    THEN ProcessCached(BlankResult(dict_stock), dict_stock.n_start_price[1],
                       dict_stock.n_end_price[1], dict_stock.s_currency[1])
    ELSE IF GetOr(dict_stock, "b_not_found", FALSE) \/ GetOr(dict_stock, "s_ticker", <<>>) = <<>>
    THEN [raised |-> FALSE, notes |-> <<>>, calls |-> <<>>,
          result |-> [BlankResult(dict_stock) EXCEPT !.s_error = "Stock details not found"]]
    ELSE IF ~ValidDate(d_start) \/ ~ValidDate(d_end)
    THEN [raised |-> TRUE, exc |-> "ValueError", calls |-> <<>>]
    ELSE ProcessLive(ProvOf(prices, dict_stock.s_ticker),
                     GetOr(dict_stock, "s_name", <<>>), dict_stock.s_ticker,
                     BlankResult(dict_stock),
                     adjust_to_trading_day(d_start, TRUE),
                     adjust_to_trading_day(d_end, TRUE))

\* process_stock: result and notes when it returns, raised when an exception
\* leaves it; calls are the provider calls it made.
process_stock(prices, dict_stock, d_start, d_end) ==
    IF GetOr(dict_stock, "b_not_found", FALSE) \/ GetOr(dict_stock, "s_ticker", <<>>) = <<>>
    THEN [raised |-> FALSE, notes |-> <<>>, calls |-> <<>>,
          result |-> [BlankResult(dict_stock) EXCEPT !.s_error = "Stock details not found"]]
    ELSE IF /\ Get(dict_stock, "n_start_price") # None
            /\ Get(dict_stock, "n_end_price") # None
            /\ Get(dict_stock, "s_currency") # None
    THEN ProcessCached(BlankResult(dict_stock), dict_stock.n_start_price[1],
                       dict_stock.n_end_price[1], dict_stock.s_currency[1])
    ELSE IF ~ValidDate(d_start) \/ ~ValidDate(d_end)
    THEN [raised |-> TRUE, exc |-> "ValueError", calls |-> <<>>]
    ELSE ProcessLive(ProvOf(prices, dict_stock.s_ticker),
                     GetOr(dict_stock, "s_name", <<>>), dict_stock.s_ticker,
                     BlankResult(dict_stock),
                     adjust_to_trading_day(d_start, TRUE),
                     adjust_to_trading_day(d_end, TRUE))

----------------------------------------------------------------------------
(* Inputs and environments of the checked runs *)

\* Longest run of consecutive ISIN stocks in an input list.
MaxRun == 11

UserTicker == <<"T", "K">>

StockName(i) == IF i % 2 = 1 THEN <<"S", "h">> ELSE <<"M", "s">>

\* The stock at input position i: "T" has a ticker (and an ISIN as well),
\* "I" an ISIN only, "N" a name only.
StockAt(s_kind, i) ==
    [s_name |-> StockName(i),
     s_ticker |-> IF s_kind = "T" THEN UserTicker ELSE <<>>,
     s_isin |-> IF s_kind = "N" THEN <<>> ELSE <<"ISIN", i>>]

Heads == {<<>>, <<"T">>, <<"N">>, <<"N", "T">>, <<"I", "N">>}
Tails == {<<>>, <<"T">>, <<"N">>, <<"I">>}
RunLengths == {0, 1} \cup {n \in (MaxRun - 1)..MaxRun : n >= 0}

KindLists ==
    {h \o [k \in 1..r |-> "I"] \o t : h \in Heads, r \in RunLengths, t \in Tails}

StockList(kinds) == [i \in 1..Len(kinds) |-> StockAt(kinds[i], i)]

Friday == [dd |-> 3, mon |-> 1, yy |-> 25]
Saturday == [dd |-> 4, mon |-> 1, yy |-> 25]
Sunday == [dd |-> 6, mon |-> 4, yy |-> 25]
Tuesday == [dd |-> 1, mon |-> 4, yy |-> 25]
NoSuchDay == [dd |-> 31, mon |-> 2, yy |-> 25]

DatePairs == {<<Friday, Tuesday>>, <<Saturday, Sunday>>}

\* Price-provider behaviours for one ticker.
Listed(n_start, n_end, s_cur) ==
    [startHist |-> Returns(<<n_start, n_start + 1000>>),
     endHist |-> Returns(<<n_end>>),
     info |-> Returns([currency |-> s_cur])]
NoEndData == [startHist |-> Returns(<<5000>>), endHist |-> Returns(<<>>),
              info |-> Returns([currency |-> "USD"])]
InfoFails == [startHist |-> Returns(<<5000>>), endHist |-> Returns(<<6000>>),
              info |-> Raises]
HistoryFails == [startHist |-> Raises, endHist |-> Returns(<<6000>>),
                 info |-> Returns([currency |-> "USD"])]

TickerNGL == <<"N", "G", ".", "L">>
TickerM == <<"M">>
TickerSU == <<"S", "U">>
TickerSA == <<"S", "A">>
TickerMSL == <<"M", "S", ".", "L">>

\* The price providers of the checked runs: every ticker listed; some
\* tickers unknown or short of data; some queries raising.
YfWorlds ==
    { (UserTicker :> Listed(100000, 150004, "USD"))
        @@ (TickerNGL :> Listed(1234, 1111, "GBp"))
        @@ (TickerM :> Listed(20000, 20000, "USD"))
        @@ (TickerSU :> Listed(3336, 4445, "USD"))
        @@ (TickerSA :> Listed(7000, 3500, "EUR"))
        @@ (TickerMSL :> Listed(9000, 9900, "GBp")),
      (UserTicker :> NoEndData)
        @@ (TickerNGL :> NoEndData)
        @@ (TickerM :> Listed(20000, 20000, "USD"))
        @@ (TickerSA :> Listed(7000, 3500, "EUR")),
      (UserTicker :> HistoryFails)
        @@ (TickerNGL :> InfoFails)
        @@ (TickerM :> Listed(0, 20000, "USD"))
        @@ (TickerSU :> HistoryFails)
        @@ (TickerMSL :> Listed(9000, 9900, "GBp")) }

\* Elements of a mapping response.
ElemWarning == [warning |-> "No identifier found."]
ElemError == [error |-> "Invalid idValue."]
ElemNoData == [figi |-> "BBG000"]
ElemEmptyData == [data |-> <<>>]
ElemFirst == [data |-> <<[ticker |-> <<"N", "G", "/">>, exchCode |-> "LN"]>>]
ElemTwo == [data |-> <<[ticker |-> <<"M", "/", "/">>, exchCode |-> "US"],
                       [ticker |-> <<"N", "G", "/">>, exchCode |-> "LN"]>>]
ElemOddExchange == [data |-> <<[ticker |-> <<"N", "G", ".", "L">>, exchCode |-> "XX"]>>]

\* What the mapping service answers per queried ISIN, cyclically by the
\* ISIN's rank among the queried ones.
MappingPatterns ==
    << <<ElemFirst>>,
       <<ElemTwo, ElemWarning, ElemFirst, ElemError, ElemNoData, ElemEmptyData,
         ElemOddExchange>> >>

\* A mapping service: its answer pattern, and by how many elements its
\* response differs in length from the request.
MappingWorlds == [pattern : 1..Len(MappingPatterns), extra : {-1, 0, 1}]

MappingBody(world, n_start_index, n_items) ==
    LET pat == MappingPatterns[world.pattern]
        n == IF n_items + world.extra < 0 THEN 0 ELSE n_items + world.extra
    IN  [k \in 1..n |-> pat[((n_start_index + k - 1) % Len(pat)) + 1]]

RateLimitHeaders ==
    [h \in {"ratelimit-limit", "ratelimit-remaining", "ratelimit-reset"} |->
        IF h = "ratelimit-limit" THEN "25" ELSE IF h = "ratelimit-remaining" THEN "0" ELSE "42"]
NoHeaders == <<>>

FailedReplies ==
    {Transport, Http(429, RateLimitHeaders, <<>>), Http(429, NoHeaders, <<>>),
     Http(500, NoHeaders, <<>>)}

MappingReplies(world, n_start_index, n_items) ==
    FailedReplies \cup {Http(200, NoHeaders, MappingBody(world, n_start_index, n_items))}

\* Candidates of a search response, in API order.
Cand(s_ticker, s_exch, s_type, s_type2, s_name) ==
    [ticker |-> s_ticker, exchCode |-> s_exch, securityType |-> s_type,
     securityType2 |-> s_type2, name |-> s_name]

NameSH == <<"S", "H", " ", "C">>
NameMS == <<"M", "S">>

SearchCandidates ==
    << Cand(<<"S", "A", "/">>, "GF", "Common Stock", "Common Stock", NameSH),
       Cand(<<"S", "B">>, "LN", "Bond", "Corp", NameSH),
       Cand(<<"M", "S", "/">>, "LN", "Common Stock", "Common Stock", NameMS),
       Cand(<<"S", "U">>, "US", "Mutual Fund", "ETP", NameSH),
       Cand(<<"S", "X">>, "XX", "REIT", "REIT", NameSH) >>

\* A search service: the JSON body it answers every query with.
SearchWorlds == {[message |-> "none"], [data |-> <<>>], [data |-> SearchCandidates]}

SearchReplies(world) == FailedReplies \cup {Http(200, NoHeaders, world)}

----------------------------------------------------------------------------
(* State *)

VARIABLES
    pc,                   \* where main is: "main", "mapping", "search", "merge",
                          \* "process", "done", "exit" (sys.exit(1)), "crash"
                          \* (an uncaught exception), or "call"/"returned" for
                          \* a single function under check
    list_dict_stocks,     \* main's stock list, the one resolve_all_tickers updates
    input_stocks,         \* the stock list as it was parsed (never written)
    s_start_date,
    s_end_date,
    yf,                   \* the price provider: ticker -> behaviour
    mapping_world,        \* the mapping service
    search_world,         \* the search service
    list_dict_results,    \* resolve_tickers_batch_with_prices' result list
    list_n_isin_indices,
    list_n_name_indices,
    n_batch_index,        \* next ISIN batch
    n_name_index,         \* next name lookup
    events,               \* requests, validator calls, sleeps and process_stock
                          \* calls so far, in order
    error,                \* the ApiError main caught, if any
    exit_code,
    list_dict_output,     \* main's list_dict_results: one record per processed stock
    list_s_notes,         \* main's list_s_all_date_adjustment_notes
    b_output_written,
    fn_args,              \* arguments of the single function under check
    fn_ret                \* its return value

vars ==
    <<pc, list_dict_stocks, input_stocks, s_start_date, s_end_date, yf, mapping_world,
      search_world, list_dict_results, list_n_isin_indices, list_n_name_indices,
      n_batch_index, n_name_index, events, error, exit_code, list_dict_output,
      list_s_notes, b_output_written, fn_args, fn_ret>>

resolution_vars ==
    <<list_dict_results, list_n_isin_indices, list_n_name_indices, n_batch_index,
      n_name_index, events>>

env_vars == <<input_stocks, s_start_date, s_end_date, yf, mapping_world, search_world>>

output_vars == <<list_dict_output, list_s_notes, b_output_written>>

HasKind(kinds, s_kind) == \E i \in 1..Len(kinds) : kinds[i] = s_kind

\* main after its input is parsed, before resolve_all_tickers.  A service
\* that a list never calls is held at one value.
Init ==
    /\ pc = "main"
    /\ \E kinds \in KindLists :
        /\ list_dict_stocks = StockList(kinds)
        /\ input_stocks = StockList(kinds)
        /\ mapping_world \in MappingWorlds
        /\ HasKind(kinds, "I") \/ mapping_world = [pattern |-> 1, extra |-> 0]
        /\ search_world \in SearchWorlds
        /\ HasKind(kinds, "N") \/ search_world = [data |-> <<>>]
    /\ \E dates \in DatePairs : s_start_date = dates[1] /\ s_end_date = dates[2]
    /\ yf \in YfWorlds
    /\ list_dict_results = <<>>
    /\ list_n_isin_indices = <<>>
    /\ list_n_name_indices = <<>>
    /\ n_batch_index = 0
    /\ n_name_index = 0
    /\ events = <<>>
    /\ error = None
    /\ exit_code = None
    /\ list_dict_output = <<>>
    /\ list_s_notes = <<>>
    /\ b_output_written = FALSE
    /\ fn_args = None
    /\ fn_ret = None

n_isin_count == Len(list_n_isin_indices)
n_name_count == Len(list_n_name_indices)
n_isin_batch_count == CeilDiv(n_isin_count, OPENFIGI_BATCH_SIZE)

\* Mutant of ExitOnApiError: the lookups that had completed are written to
\* the stock records before the error leaves resolve_all_tickers.
ExitOnApiError_WritesCompleted(response_api, s_endpoint) ==
    /\ error' = Some(ApiErrorOf(response_api, s_endpoint))
    /\ exit_code' = Some(1)
    /\ pc' = "exit"
    /\ list_dict_stocks' = MergeLoop(list_dict_stocks, list_dict_results, 1).stocks

\* The ApiError leaves resolve_tickers_batch_with_prices and
\* resolve_all_tickers (whose update loop, lines 810-829, is not reached)
\* for main's except ApiError branch: print the error and sys.exit(1).
ExitOnApiError(response_api, s_endpoint) ==
    /\ error' = Some(ApiErrorOf(response_api, s_endpoint))
    /\ exit_code' = Some(1)
    /\ pc' = "exit"
    /\ UNCHANGED list_dict_stocks

\* resolve_tickers_batch_with_prices, lines 596-637: categorise the stocks;
\* return at once when nothing needs a lookup.
Categorise ==
    /\ pc = "main"
    /\ list_dict_results' = CategorisedResults(list_dict_stocks)
    /\ list_n_isin_indices' = IndicesOf(list_dict_stocks, "isin", 1)
    /\ list_n_name_indices' = IndicesOf(list_dict_stocks, "name", 1)
    /\ pc' = IF list_n_isin_indices' # <<>> THEN "mapping"
             ELSE IF list_n_name_indices' # <<>> THEN "search"
             ELSE "merge"
    /\ UNCHANGED <<list_dict_stocks, env_vars, n_batch_index, n_name_index, events,
                   error, exit_code, output_vars, fn_args, fn_ret>>

SleepEvent(n_delay) == [ev |-> "sleep", delay |-> n_delay]

\* A request as the log keeps it: status is the HTTP status it came back
\* with, 0 when requests.post raised.
StatusOf(response_api) == IF response_api.transport THEN 0 ELSE response_api.status_code

\* The response headers the log keeps with a request (none when
\* requests.post raised).
HeadersOf(response_api) == IF response_api.transport THEN <<>> ELSE response_api.headers

MappingEvent(list_dict_api_query, response_api) ==
    [ev |-> "mapping", items |-> list_dict_api_query, status |-> StatusOf(response_api),
     headers |-> HeadersOf(response_api)]

SearchEvent(n_original_index, s_name, response_api) ==
    [ev |-> "search", query |-> s_name, index |-> n_original_index,
     status |-> StatusOf(response_api), headers |-> HeadersOf(response_api)]

\* Mutant of AfterMappingResponse: the batch loop sleeps after every batch.
AfterMappingResponse_AlwaysSleeps(parsed) ==
    /\ list_dict_results' = parsed.results
    /\ IF parsed.raised
       THEN /\ pc' = "crash"
            /\ events' = parsed.events
            /\ UNCHANGED n_batch_index
       ELSE /\ events' = Append(parsed.events, SleepEvent(OPENFIGI_MAPPING_DELAY_SECONDS))
            /\ n_batch_index' = n_batch_index + 1
            /\ pc' = IF n_batch_index + 1 < n_isin_batch_count THEN "mapping"
                     ELSE IF n_name_count > 0 THEN "search"
                     ELSE "merge"
    /\ UNCHANGED <<list_dict_stocks, error, exit_code>>

\* The rest of a batch-loop pass once the response is parsed: an IndexError
\* raised while parsing leaves main; otherwise sleep if another batch or a
\* name lookup follows, and go on.
AfterMappingResponse(parsed) ==
    /\ list_dict_results' = parsed.results
    /\ IF parsed.raised
       THEN /\ pc' = "crash"
            /\ events' = parsed.events
            /\ UNCHANGED n_batch_index
       ELSE /\ events' = IF n_batch_index < n_isin_batch_count - 1 \/ n_name_count > 0
                         THEN Append(parsed.events,
                                     SleepEvent(OPENFIGI_MAPPING_DELAY_SECONDS))
                         ELSE parsed.events
            /\ n_batch_index' = n_batch_index + 1
            /\ pc' = IF n_batch_index + 1 < n_isin_batch_count THEN "mapping"
                     ELSE IF n_name_count > 0 THEN "search"
                     ELSE "merge"
    /\ UNCHANGED <<list_dict_stocks, error, exit_code>>

PostMapping(list_dict_api_query, response_api) ==
    IF RequestFails(response_api)
    THEN /\ ExitOnApiError(response_api, "mapping")
         /\ events' = Append(events, MappingEvent(list_dict_api_query, response_api))
         /\ UNCHANGED <<list_dict_results, n_batch_index>>
    ELSE AfterMappingResponse(
             ParseMappingResponse(
                 yf, response_api.body, list_n_isin_indices,
                 n_batch_index * OPENFIGI_BATCH_SIZE, s_start_date, s_end_date, 0,
                 list_dict_results,
                 Append(events, MappingEvent(list_dict_api_query, response_api))))

\* One pass of the ISIN batch loop, lines 643-743: build the query, post it,
\* raise on failure, parse the response, sleep if more work follows.
MappingRequest ==
    /\ pc = "mapping"
    /\ \E response_api \in
           MappingReplies(mapping_world, n_batch_index * OPENFIGI_BATCH_SIZE,
                          Len(BatchQuery(list_dict_stocks, list_n_isin_indices,
                                         n_batch_index))) :
         PostMapping(BatchQuery(list_dict_stocks, list_n_isin_indices, n_batch_index),
                     response_api)
    /\ UNCHANGED <<env_vars, list_n_isin_indices, list_n_name_indices,
                   n_name_index, output_vars, fn_args, fn_ret>>

\* Mutant of AfterLookup: the name loop sleeps the mapping delay.
AfterLookup_MappingDelay(n_original_index, request, looked) ==
    /\ list_dict_results' =
           [list_dict_results EXCEPT ![n_original_index] = NameResult(looked.ret)]
    /\ events' = Append(events, request)
                 \o ValidateEvents(n_original_index, looked.validated)
                 \o (IF n_name_index < n_name_count - 1
                     THEN <<SleepEvent(OPENFIGI_MAPPING_DELAY_SECONDS)>>
                     ELSE <<>>)
    /\ n_name_index' = n_name_index + 1
    /\ pc' = IF n_name_index + 1 < n_name_count THEN "search" ELSE "merge"
    /\ UNCHANGED <<list_dict_stocks, error, exit_code>>

\* The rest of a name-loop pass once resolve_ticker_with_prices returned.
AfterLookup(n_original_index, request, looked) ==
    /\ list_dict_results' =
           [list_dict_results EXCEPT ![n_original_index] = NameResult(looked.ret)]
    /\ events' = Append(events, request)
                 \o ValidateEvents(n_original_index, looked.validated)
                 \o (IF n_name_index < n_name_count - 1
                     THEN <<SleepEvent(OPENFIGI_SEARCH_DELAY_SECONDS)>>
                     ELSE <<>>)
    /\ n_name_index' = n_name_index + 1
    /\ pc' = IF n_name_index + 1 < n_name_count THEN "search" ELSE "merge"
    /\ UNCHANGED <<list_dict_stocks, error, exit_code>>

PostSearch(n_original_index, s_name, response_api) ==
    IF RequestFails(response_api)
    THEN /\ ExitOnApiError(response_api, "search")
         /\ events' = Append(events, SearchEvent(n_original_index, s_name, response_api))
         /\ UNCHANGED <<list_dict_results, n_name_index>>
    ELSE AfterLookup(
             n_original_index,
             SearchEvent(n_original_index, s_name, response_api),
             resolve_ticker_with_prices(yf, response_api.body, s_name,
                                        s_start_date, s_end_date))

\* One pass of the name loop, lines 751-774: resolve_ticker_with_prices
\* (search request, selection, validation), write the result, sleep unless
\* this was the last name.
SearchRequest ==
    /\ pc = "search"
    /\ \E response_api \in SearchReplies(search_world) :
         PostSearch(list_n_name_indices[n_name_index + 1],
                    GetOr(list_dict_stocks[list_n_name_indices[n_name_index + 1]],
                          "s_name", <<>>),
                    response_api)
    /\ UNCHANGED <<env_vars, list_n_isin_indices, list_n_name_indices,
                   n_batch_index, output_vars, fn_args, fn_ret>>

AfterMerge(merged) ==
    /\ list_dict_stocks' = merged.stocks
    /\ pc' = IF merged.raised THEN "crash" ELSE "process"

\* resolve_all_tickers after the batch lookup returned, lines 810-831.
Merge ==
    /\ pc = "merge"
    /\ AfterMerge(MergeLoop(list_dict_stocks, list_dict_results, 1))
    /\ UNCHANGED <<env_vars, resolution_vars, error, exit_code, output_vars,
                   fn_args, fn_ret>>

\* What the log keeps of one process_stock call: the stock's position, the
\* provider calls made, the notes returned and whether an exception left it.
ProcessEvent(n_index, done) ==
    [ev |-> "process", index |-> n_index, calls |-> done.calls,
     notes |-> IF done.raised THEN <<>> ELSE done.notes, raised |-> done.raised]

AfterProcess(done) ==
    /\ events' = Append(events, ProcessEvent(Len(list_dict_output) + 1, done))
    /\ IF done.raised
       THEN /\ pc' = "crash"
            /\ UNCHANGED <<list_dict_output, list_s_notes>>
       ELSE /\ list_dict_output' = Append(list_dict_output, done.result)
            /\ list_s_notes' = list_s_notes \o done.notes
            /\ pc' = pc

\* One pass of main's processing loop, lines 1292-1298.
ProcessStock ==
    /\ pc = "process"
    /\ Len(list_dict_output) < Len(list_dict_stocks)
    /\ AfterProcess(process_stock(yf, list_dict_stocks[Len(list_dict_output) + 1],
                                  s_start_date, s_end_date))
    /\ UNCHANGED <<list_dict_stocks, env_vars, list_dict_results, list_n_isin_indices,
                   list_n_name_indices, n_batch_index, n_name_index, error, exit_code,
                   b_output_written, fn_args, fn_ret>>

\* main, lines 1300-1308: print the table and write the output file.
WriteOutput ==
    /\ pc = "process"
    /\ Len(list_dict_output) = Len(list_dict_stocks)
    /\ b_output_written' = TRUE
    /\ pc' = "done"
    /\ UNCHANGED <<list_dict_stocks, env_vars, resolution_vars, error, exit_code,
                   list_dict_output, list_s_notes, fn_args, fn_ret>>

Next ==
    \/ Categorise
    \/ MappingRequest
    \/ SearchRequest
    \/ Merge
    \/ ProcessStock
    \/ WriteOutput

Spec == Init /\ [][Next]_vars


----------------------------------------------------------------------------
(* The selector on its own: select_and_validate_best_result and            *)
(* resolve_ticker_with_prices applied to bounded candidate lists.          *)

\* Longest candidate list handed to the selector.
MaxCandidates == 3

TickerSLL == <<"S", "L", ".", "L">>
TickerSBL == <<"S", "B", ".", "L">>

NameASH == <<"A", " ", "S", "H">>

\* Candidates a search response may hold: sound ones on three exchanges (two
\* of them on the first one), and one failing each filter condition.
SelectorCandidates ==
    { Cand(<<"S", "L", "/">>, "LN", "Common Stock", "Common Stock", NameSH),
      Cand(<<"S", "B">>, "LN", "Open-End Fund", "ETP", NameASH),
      Cand(<<"S", "U">>, "US", "REIT", "REIT", NameSH),
      Cand(<<"S", "A", "/", "/">>, "GF", "Common Stock", "Common Stock", NameSH),
      Cand(<<"S", "L">>, "LN", "Bond", "Corp", NameSH),
      Cand(<<"S", "U">>, "US", "Common Stock", "Common Stock", NameMS),
      Cand(<<"S", "A">>, "XX", "Common Stock", "Common Stock", NameSH) }

SelectorLists == UNION {[1..n -> SelectorCandidates] : n \in 0..MaxCandidates}

SelectorQueries == {<<"S", "h">>, <<"M", "s">>}

SelectorTickers == {TickerSLL, TickerSBL, TickerSU, TickerSA}

\* What the provider holds for a ticker it lists.
ListedAs(s_ticker) ==
    CASE s_ticker = TickerSLL -> Listed(1234, 1111, "GBp")
      [] s_ticker = TickerSBL -> Listed(9000, 9900, "GBp")
      [] s_ticker = TickerSU -> Listed(3336, 4445, "USD")
      [] OTHER -> Listed(7000, 3500, "EUR")

\* Price providers: each subset of the tickers listed, the others without
\* data in the end window.
SelectorYfWorlds ==
    {[t \in SelectorTickers |-> IF t \in listed THEN ListedAs(t) ELSE NoEndData] :
        listed \in SUBSET SelectorTickers}

\* The variables of main's run, at rest while one function is under check.
MainAtRest ==
    /\ list_dict_stocks = <<>>
    /\ input_stocks = <<>>
    /\ mapping_world = [pattern |-> 1, extra |-> 0]
    /\ search_world = [data |-> <<>>]
    /\ list_dict_results = <<>>
    /\ list_n_isin_indices = <<>>
    /\ list_n_name_indices = <<>>
    /\ n_batch_index = 0
    /\ n_name_index = 0
    /\ events = <<>>
    /\ error = None
    /\ exit_code = None
    /\ list_dict_output = <<>>
    /\ list_s_notes = <<>>
    /\ b_output_written = FALSE

main_vars ==
    <<list_dict_stocks, env_vars, resolution_vars, error, exit_code, output_vars>>

InitSelect ==
    /\ pc = "select"
    /\ MainAtRest
    /\ s_start_date = Friday
    /\ s_end_date = Tuesday
    /\ yf \in SelectorYfWorlds
    /\ \E list_dict_api_results \in SelectorLists, s_search_query \in SelectorQueries :
         fn_args = Some([list_dict_api_results |-> list_dict_api_results,
                         s_search_query |-> s_search_query])
    /\ fn_ret = None

\* The selector's return value and validator calls, and what
\* resolve_ticker_with_prices returns for a response with these candidates.
CallSelect ==
    /\ pc = "select"
    /\ fn_ret' = Some(
           [selected |-> select_and_validate_best_result(
                             yf, fn_args[1].list_dict_api_results,
                             fn_args[1].s_search_query, s_start_date, s_end_date),
            lookup |-> resolve_ticker_with_prices(
                           yf, [data |-> fn_args[1].list_dict_api_results],
                           fn_args[1].s_search_query, s_start_date, s_end_date)])
    /\ pc' = "returned"
    /\ UNCHANGED <<main_vars, fn_args>>

NextSelect == CallSelect

SpecSelect == InitSelect /\ [][NextSelect]_vars

----------------------------------------------------------------------------
(* The validator on its own: validate_ticker_and_fetch_prices applied to   *)
(* every combination of provider behaviour and date strings.               *)

BadMonth == [dd |-> 1, mon |-> 0, yy |-> 25]
YearEnd == [dd |-> 31, mon |-> 12, yy |-> 22]

DateStrings == {Friday, Saturday, Sunday, YearEnd, NoSuchDay, BadMonth}

HistoryBehaviours == {Raises, Returns(<<>>), Returns(<<5004, 6000>>)}

InfoBehaviours == {Raises, Returns([currency |-> "USD"]), Returns([shortName |-> "M"])}

ProviderBehaviours ==
    [startHist : HistoryBehaviours, endHist : HistoryBehaviours, info : InfoBehaviours]

InitValidate ==
    /\ pc = "validate"
    /\ MainAtRest
    /\ s_start_date \in DateStrings
    /\ s_end_date \in DateStrings
    /\ \E prov \in ProviderBehaviours : yf = (TickerM :> prov)
    /\ fn_args = Some([s_ticker |-> TickerM])
    /\ fn_ret = None

CallValidate ==
    /\ pc = "validate"
    /\ fn_ret' = Some(validate_ticker_and_fetch_prices(
                          ProvOf(yf, fn_args[1].s_ticker), fn_args[1].s_ticker,
                          s_start_date, s_end_date))
    /\ pc' = "returned"
    /\ UNCHANGED <<main_vars, fn_args>>

NextValidate == CallValidate

SpecValidate == InitValidate /\ [][NextValidate]_vars


----------------------------------------------------------------------------
(* Properties of main's run (Spec) *)

SeqSet(seq) == {seq[k] : k \in DOMAIN seq}

\* The input stocks by what the parsed input holds for them.
HasTicker(i) == input_stocks[i].s_ticker # <<>>
HasIsin(i) == input_stocks[i].s_isin # <<>>
IsinStocks == {i \in DOMAIN input_stocks : ~HasTicker(i) /\ HasIsin(i)}
NameStocks == {i \in DOMAIN input_stocks : ~HasTicker(i) /\ ~HasIsin(i)}

IsRequest(event) == event.ev \in {"mapping", "search"}
MappingEvents == {k \in DOMAIN events : events[k].ev = "mapping"}
SearchEvents == {k \in DOMAIN events : events[k].ev = "search"}

\* The record the claims call "not found": empty ticker, exchange code and
\* full ticker, no prices.
NotFoundRecord ==
    [s_ticker |-> <<>>, s_exchange_code |-> "", s_full_ticker |-> <<>>,
     b_not_found |-> TRUE, b_skipped |-> FALSE,
     n_start_price |-> None, n_end_price |-> None, s_currency |-> None]

\* C1: whenever resolve_tickers_batch_with_prices has returned normally, the
\* returned list has the input's length and every entry is a complete result
\* record, never the None placeholder, a skipped entry carrying the ticker
\* of the stock at its index.
C1_ReturnedListComplete ==
    pc = "merge" =>
        /\ Len(list_dict_results) = Len(input_stocks)
        /\ \A i \in DOMAIN list_dict_results :
             /\ list_dict_results[i] # Placeholder
             /\ DOMAIN list_dict_results[i] = DOMAIN NotFoundRecord
             /\ HasTicker(i) => list_dict_results[i].s_ticker = input_stocks[i].s_ticker

\* C2: once the stocks are categorised, every stock is in exactly one group.
\* A stock with a ticker is skipped: its result has b_skipped true, the
\* input ticker and no prices, and no mapping item, search request or
\* validator call is ever made for it, even if it has an ISIN.  A stock
\* with no ticker and an ISIN is in the ISIN group only; a stock with
\* neither is in the name group only.
C2_Classification ==
    pc # "main" =>
        \A i \in DOMAIN input_stocks :
            /\ HasTicker(i) =>
                /\ list_dict_results[i] =
                       [s_ticker |-> input_stocks[i].s_ticker, s_exchange_code |-> "",
                        s_full_ticker |-> <<>>, b_not_found |-> FALSE, b_skipped |-> TRUE,
                        n_start_price |-> None, n_end_price |-> None, s_currency |-> None]
                /\ i \notin SeqSet(list_n_isin_indices) \cup SeqSet(list_n_name_indices)
                /\ \A k \in DOMAIN events :
                     /\ events[k].ev = "mapping" =>
                          \A j \in DOMAIN events[k].items :
                              events[k].items[j].idValue # input_stocks[i].s_isin
                     /\ events[k].ev \in {"search", "validate"} => events[k].index # i
            /\ (~HasTicker(i) /\ HasIsin(i)) =>
                /\ i \in SeqSet(list_n_isin_indices)
                /\ i \notin SeqSet(list_n_name_indices)
                /\ \A k \in SearchEvents : events[k].index # i
            /\ (~HasTicker(i) /\ ~HasIsin(i)) =>
                /\ i \in SeqSet(list_n_name_indices)
                /\ i \notin SeqSet(list_n_isin_indices)

\* C2 witness: a finished run over a list with a stock that has a ticker and
\* an ISIN, an ISIN-only stock and a name-only stock, in which the mapping
\* and the search endpoint were both called.
C2_Witness ==
    /\ pc = "done"
    /\ \E i \in DOMAIN input_stocks : HasTicker(i) /\ HasIsin(i)
    /\ IsinStocks # {}
    /\ NameStocks # {}
    /\ MappingEvents # {}
    /\ SearchEvents # {}

\* C3: a request that came back failed (transport error, 429 or any other
\* non-200 status) is the last thing resolution did: nothing is logged
\* after it, main has caught ApiError and exited with code 1, no stock has
\* been processed and no output written; and nothing more ever happens.
C3_FailedRequestAborts ==
    /\ \A k \in DOMAIN events :
         (IsRequest(events[k]) /\ events[k].status # 200) =>
            /\ k = Len(events)
            /\ pc = "exit"
            /\ error # None
            /\ error[1].exc = "ApiError"
            /\ exit_code = Some(1)
            /\ list_dict_output = <<>>
            /\ ~b_output_written
    /\ pc = "exit" => ~ENABLED Next

\* C3 witness: a search request failed with status 500 after a mapping
\* request and a validator call succeeded, and main has exited.
C3_Witness ==
    /\ pc = "exit"
    /\ events[Len(events)].ev = "search"
    /\ events[Len(events)].status = 500
    /\ \E k \in MappingEvents : events[k].status = 200
    /\ \E k \in DOMAIN events : events[k].ev = "validate"

\* C4: between any two requests to the mapping endpoint there is a sleep of
\* at least 2.5 s, and between any two requests to the search endpoint a
\* sleep of at least 13.0 s (delays in tenths of a second).
C4_DelayBetweenRequests ==
    \A i, j \in DOMAIN events :
        (i < j /\ IsRequest(events[i]) /\ events[i].ev = events[j].ev) =>
            \E k \in (i + 1)..(j - 1) :
                /\ events[k].ev = "sleep"
                /\ events[k].delay >= (IF events[i].ev = "mapping" THEN 25 ELSE 130)

\* C4 witness: a run that made two mapping requests and two search requests.
C4_Witness ==
    /\ Cardinality(MappingEvents) >= 2
    /\ Cardinality(SearchEvents) >= 2

\* The ISINs of the ISIN stocks, in input order.
ExpectedIsins ==
    LET list_isin_stocks ==
            SelectSeq(input_stocks, LAMBDA st : st.s_ticker = <<>> /\ st.s_isin # <<>>)
    IN  [k \in DOMAIN list_isin_stocks |-> list_isin_stocks[k].s_isin]

\* The ISINs queried by the mapping requests among the first n events.
RECURSIVE QueriedIsins(_)
QueriedIsins(n) ==
    IF n = 0 THEN <<>>
    ELSE IF events[n].ev = "mapping"
    THEN QueriedIsins(n - 1) \o [j \in DOMAIN events[n].items |-> events[n].items[j].idValue]
    ELSE QueriedIsins(n - 1)

IsPrefix(short, long) ==
    Len(short) <= Len(long) /\ SubSeq(long, 1, Len(short)) = short

\* C5: every mapping request carries 1 to 10 items with idType ID_ISIN; the
\* items of the requests so far, concatenated, are a prefix of the ISIN
\* stocks in input order; once the batch loop is over without a failure
\* they are all of them, in ceil(n/10) requests.
C5_Batches ==
    /\ \A k \in MappingEvents :
         /\ Len(events[k].items) \in 1..10
         /\ \A j \in DOMAIN events[k].items : events[k].items[j].idType = "ID_ISIN"
    /\ IsPrefix(QueriedIsins(Len(events)), ExpectedIsins)
    /\ pc \in {"search", "merge", "process", "done"} =>
         /\ QueriedIsins(Len(events)) = ExpectedIsins
         /\ Cardinality(MappingEvents) = (Len(ExpectedIsins) + 9) \div 10

\* C5 witness: eleven ISIN stocks resolved by a request of ten items and a
\* request of one.
C5_Witness ==
    /\ pc = "done"
    /\ Cardinality(IsinStocks) = 11
    /\ \E k, l \in MappingEvents :
         k < l /\ Len(events[k].items) = 10 /\ Len(events[l].items) = 1

\* str.rstrip("/") as the claims describe it: the longest prefix that does
\* not end in a slash.
WithoutTrailingSlashes(s) ==
    SubSeq(s, 1, CHOOSE n \in 0..Len(s) :
                     /\ n = 0 \/ s[n] # "/"
                     /\ \A m \in (n + 1)..Len(s) : s[m] = "/")

\* The response element the mapping service gives for ISIN stock i: the
\* pattern's element at the stock's rank among the ISIN stocks.
AnswerFor(i) ==
    LET pat == MappingPatterns[mapping_world.pattern]
        n_rank == Cardinality({j \in IsinStocks : j < i})
    IN  pat[(n_rank % Len(pat)) + 1]

IsSentinel(elem) ==
    \/ "warning" \in DOMAIN elem
    \/ "error" \in DOMAIN elem
    \/ "data" \notin DOMAIN elem
    \/ elem.data = <<>>

\* The outcome C9 gives for a response element that has data.
OutcomeOfFirstEntry(s_ticker, s_exchange_code, s_full_ticker, dict_validation) ==
    IF dict_validation.b_valid
    THEN [s_ticker |-> s_ticker, s_exchange_code |-> s_exchange_code,
          s_full_ticker |-> s_full_ticker, b_not_found |-> FALSE, b_skipped |-> FALSE,
          n_start_price |-> dict_validation.n_start_price,
          n_end_price |-> dict_validation.n_end_price,
          s_currency |-> dict_validation.s_currency]
    ELSE NotFoundRecord

FullTickerOfFirstEntry(elem) ==
    WithoutTrailingSlashes(elem.data[1].ticker) \o map_exchange_to_suffix(elem.data[1].exchCode)

ExpectedOutcome(elem) ==
    IF IsSentinel(elem) THEN NotFoundRecord
    ELSE OutcomeOfFirstEntry(
             WithoutTrailingSlashes(elem.data[1].ticker), elem.data[1].exchCode,
             FullTickerOfFirstEntry(elem),
             validate_ticker_and_fetch_prices(
                 ProvOf(yf, FullTickerOfFirstEntry(elem)), FullTickerOfFirstEntry(elem),
                 s_start_date, s_end_date).ret)

\* C9: when the lookup has returned (or an over-long response has stopped
\* it), the result written for an ISIN stock is the not-found record if its
\* response element has a warning, an error, no data or empty data, or if
\* the validator rejects the full ticker of the first data entry, and
\* otherwise the sanitised ticker, exchange code and full ticker of the
\* first data entry with the validator's prices and currency; the only
\* ticker ever validated for the stock is that of the first data entry.
C9_MappingOutcome ==
    pc \in {"merge", "crash"} =>
        \A i \in IsinStocks :
            /\ list_dict_results[i] \in {Placeholder, ExpectedOutcome(AnswerFor(i))}
            /\ \A k \in DOMAIN events :
                 (events[k].ev = "validate" /\ events[k].index = i) =>
                    /\ ~IsSentinel(AnswerFor(i))
                    /\ events[k].ticker = FullTickerOfFirstEntry(AnswerFor(i))

\* C9 witness: the lookup has returned with one ISIN stock resolved from an
\* element with two data entries, one not found because the validator
\* rejected its first entry, and one not found because of a warning.
C9_Witness ==
    /\ pc = "merge"
    /\ \E i, j, k \in IsinStocks :
         /\ ~IsSentinel(AnswerFor(i))
         /\ Len(AnswerFor(i).data) = 2
         /\ list_dict_results[i] # Placeholder
         /\ ~list_dict_results[i].b_not_found
         /\ ~IsSentinel(AnswerFor(j))
         /\ list_dict_results[j] = NotFoundRecord
         /\ "warning" \in DOMAIN AnswerFor(k)
         /\ list_dict_results[k] = NotFoundRecord


----------------------------------------------------------------------------
(* Properties of the selector (SpecSelect) *)

\* The arguments and results of the selector call under check.
ApiResults == fn_args[1].list_dict_api_results
SearchQuery == fn_args[1].s_search_query
Selected == fn_ret[1].selected.ret
Validated == fn_ret[1].selected.validated

\* The position of an exchange code in the priority order the claims give,
\* 0 for a code that is not in it.
ClaimedPriority == <<"LN", "US", "UN", "UQ", "UM", "CN", "CT", "GF", "GR", "GY", "NA">>
TierOf(dict_candidate) ==
    IF \E t \in DOMAIN ClaimedPriority : ClaimedPriority[t] = dict_candidate.exchCode
    THEN CHOOSE t \in DOMAIN ClaimedPriority : ClaimedPriority[t] = dict_candidate.exchCode
    ELSE 0

ClaimedTypes == {"Common Stock", "REIT", "ETP"}

\* The three filters as the claims state them.
PassesAll(dict_candidate) ==
    /\ dict_candidate.securityType \in ClaimedTypes
       \/ dict_candidate.securityType2 \in ClaimedTypes
    /\ TierOf(dict_candidate) > 0
    /\ IsSubstring(Lower(SearchQuery), Lower(dict_candidate.name))

ClaimedFullTicker(dict_candidate) ==
    WithoutTrailingSlashes(dict_candidate.ticker)
        \o map_exchange_to_suffix(dict_candidate.exchCode)

\* The validator's answer for a candidate's full ticker.
ValidatorAccepts(dict_candidate) ==
    validate_ticker_and_fetch_prices(
        ProvOf(yf, ClaimedFullTicker(dict_candidate)), ClaimedFullTicker(dict_candidate),
        s_start_date, s_end_date).ret.b_valid

\* Positions of the candidates that pass the filters and validate.
Eligible == {p \in DOMAIN ApiResults : PassesAll(ApiResults[p]) /\ ValidatorAccepts(ApiResults[p])}

\* (tier, position) of p lexicographically before that of r.
Before(p, r) ==
    \/ TierOf(ApiResults[p]) < TierOf(ApiResults[r])
    \/ TierOf(ApiResults[p]) = TierOf(ApiResults[r]) /\ p < r

Best == CHOOSE p \in Eligible : \A r \in Eligible \ {p} : Before(p, r)

\* The returned dict is the one built from the candidate at position p.
ReturnedIs(p) ==
    /\ Selected # None
    /\ Selected[1].ticker = WithoutTrailingSlashes(ApiResults[p].ticker)
    /\ Selected[1].exchCode = ApiResults[p].exchCode
    /\ Selected[1].name = ApiResults[p].name
    /\ Selected[1].s_full_ticker = ClaimedFullTicker(ApiResults[p])

C7_FiltersHold ==
    pc = "returned" =>
        /\ \A k \in DOMAIN Validated :
             /\ PassesAll(ApiResults[Validated[k].pos])
             /\ Validated[k].ticker = ClaimedFullTicker(ApiResults[Validated[k].pos])
        /\ Selected # None =>
             /\ Validated # <<>>
             /\ ReturnedIs(Validated[Len(Validated)].pos)

\* C7 witness: a candidate on the first-priority exchange whose ticker the
\* provider lists fails the security-type filter, and the selector returned
\* a candidate on a lower-priority exchange.
C7_Witness ==
    /\ pc = "returned"
    /\ Selected # None
    /\ TierOf(ApiResults[Validated[Len(Validated)].pos]) > 1
    /\ \E p \in DOMAIN ApiResults :
         /\ TierOf(ApiResults[p]) = 1
         /\ ~PassesAll(ApiResults[p])
         /\ ValidatorAccepts(ApiResults[p])
         /\ IsSubstring(Lower(SearchQuery), Lower(ApiResults[p].name))

\* C8: the selector returns a candidate only if the validator accepted its
\* full ticker, with the validator's prices; it returns None exactly when no
\* filter-passing candidate validates; and resolve_ticker_with_prices then
\* reports b_not_found with empty ticker, exchange code and full ticker.
C8_OnlyValidated ==
    pc = "returned" =>
        /\ Selected # None =>
             /\ ProvOf(yf, Selected[1].s_full_ticker).startHist.value # <<>>
             /\ ProvOf(yf, Selected[1].s_full_ticker).endHist.value # <<>>
             /\ Selected[1].n_start_price # None
             /\ Selected[1].n_end_price # None
             /\ Selected[1].s_currency # None
        /\ (Selected = None) <=> (Eligible = {})
        /\ Selected = None =>
             /\ fn_ret[1].lookup.ret.b_not_found
             /\ fn_ret[1].lookup.ret.s_ticker = <<>>
             /\ fn_ret[1].lookup.ret.s_exchange_code = ""
             /\ fn_ret[1].lookup.ret.s_full_ticker = <<>>
        /\ Selected # None =>
             /\ ~fn_ret[1].lookup.ret.b_not_found
             /\ fn_ret[1].lookup.ret.s_full_ticker = Selected[1].s_full_ticker

\* C8 witness: two candidates passed the filters, the validator rejected
\* both, and the selector returned None.
C8_Witness ==
    /\ pc = "returned"
    /\ Selected = None
    /\ Len(Validated) >= 2
    /\ fn_ret[1].lookup.ret.b_not_found

----------------------------------------------------------------------------
(* Properties of the validator (SpecValidate) *)

Provider == yf[fn_args[1].s_ticker]

DatesParse == ValidDate(s_start_date) /\ ValidDate(s_end_date)

\* C10: the validator always returns a dict with b_valid.  It is valid, with
\* both prices and the currency, only when the dates parse and both window
\* queries returned data; whenever the dates do not parse or a query it
\* made raised, and in every other invalid case, the dict is exactly
\* {b_valid: False}; after an empty start window the only call made is the
\* start-window query.
C10_ValidatorTotal ==
    pc = "returned" =>
        /\ "b_valid" \in DOMAIN fn_ret[1].ret
        /\ fn_ret[1].ret.b_valid =>
             /\ DatesParse
             /\ ~Provider.startHist.raises /\ Provider.startHist.value # <<>>
             /\ ~Provider.endHist.raises /\ Provider.endHist.value # <<>>
             /\ DOMAIN fn_ret[1].ret =
                    {"b_valid", "n_start_price", "n_end_price", "s_currency"}
        /\ ~fn_ret[1].ret.b_valid => DOMAIN fn_ret[1].ret = {"b_valid"}
        /\ (~DatesParse \/ Provider.startHist.raises \/ Provider.endHist.raises
               \/ Provider.info.raises) => ~fn_ret[1].ret.b_valid
        /\ (DatesParse /\ ~Provider.startHist.raises /\ Provider.startHist.value = <<>>) =>
             /\ ~fn_ret[1].ret.b_valid
             /\ Len(fn_ret[1].calls) = 1
             /\ fn_ret[1].calls[1].op = "history"

\* C10 witness: the start window came back empty for a weekend start date,
\* the end-window query would have raised, and the validator returned
\* invalid after one call.
C10_Witness ==
    /\ pc = "returned"
    /\ s_start_date = Saturday
    /\ ValidDate(s_end_date)
    /\ ~Provider.startHist.raises
    /\ Provider.startHist.value = <<>>
    /\ Provider.endHist.raises
    /\ fn_ret[1].ret = [b_valid |-> FALSE]
    /\ Len(fn_ret[1].calls) = 1


----------------------------------------------------------------------------
(* Properties of main's run (Spec), continued *)

\* dict.get(key) is None: the key is missing or holds None.
Absent(d, k) == k \notin DOMAIN d \/ d[k] = None

NoPricesNoTicker(d) ==
    /\ Absent(d, "n_start_price")
    /\ Absent(d, "n_end_price")
    /\ Absent(d, "s_currency")
    /\ d.s_ticker = <<>>

\* C11: every result record of the lookup with b_not_found true, and every
\* stock record with b_not_found true (before, during and after
\* resolve_all_tickers' update loop), has no start price, no end price, no
\* currency and an empty ticker.
C11_NotFoundHasNothing ==
    /\ \A i \in DOMAIN list_dict_results :
         (list_dict_results[i] # Placeholder /\ list_dict_results[i].b_not_found) =>
             NoPricesNoTicker(list_dict_results[i])
    /\ \A i \in DOMAIN list_dict_stocks :
         ("b_not_found" \in DOMAIN list_dict_stocks[i] /\ list_dict_stocks[i].b_not_found) =>
             NoPricesNoTicker(list_dict_stocks[i])

\* C11 witness: after resolve_all_tickers an ISIN stock whose first entry
\* the validator rejected and a name-only stock are both marked not found.
C11_Witness ==
    /\ pc = "process"
    /\ \E i \in IsinStocks :
         /\ ~IsSentinel(AnswerFor(i))
         /\ list_dict_results[i].b_not_found
         /\ list_dict_stocks[i].b_not_found
    /\ \E j \in NameStocks :
         /\ list_dict_results[j].b_not_found
         /\ list_dict_stocks[j].b_not_found


ProcessEvents == {k \in DOMAIN events : events[k].ev = "process"}

\* The lookup resolved stock i itself: neither not found nor skipped.
Resolved(i) ==
    /\ list_dict_results[i] # Placeholder
    /\ ~list_dict_results[i].b_not_found
    /\ ~list_dict_results[i].b_skipped

\* C12: process_stock makes no provider call for a stock the lookup
\* resolved and does not raise; its record has no error and carries the
\* start price, end price and currency the validator cached.
C12_ResolvedNotQueriedAgain ==
    \A k \in ProcessEvents :
        Resolved(events[k].index) =>
            /\ events[k].calls = <<>>
            /\ ~events[k].raised
            /\ list_dict_output[events[k].index].s_error = ""
            /\ list_dict_output[events[k].index].n_start_price =
                   list_dict_results[events[k].index].n_start_price
            /\ list_dict_output[events[k].index].n_end_price =
                   list_dict_results[events[k].index].n_end_price
            /\ Some(list_dict_output[events[k].index].s_currency) =
                   list_dict_results[events[k].index].s_currency
            /\ list_dict_output[events[k].index].n_percentage # None

\* C12 witness: a finished run that processed a stock resolved by ISIN and
\* a stock resolved by name.
C12_Witness ==
    /\ pc = "done"
    /\ \E i \in IsinStocks : Resolved(i)
    /\ \E j \in NameStocks : Resolved(j)


----------------------------------------------------------------------------
(* process_stock on its own, applied to stock dictionaries with and        *)
(* without a ticker, a b_not_found flag and cached prices.                 *)

\* What a stock dictionary may hold besides name, ticker and ISIN.
NotFoundFlags == {<<>>, [b_not_found |-> TRUE], [b_not_found |-> FALSE]}

CachedFields ==
    { <<>>,
      [n_start_price |-> Some(5000), n_end_price |-> Some(6000), s_currency |-> Some("GBp")],
      [n_start_price |-> Some(5000), n_end_price |-> Some(6000), s_currency |-> None],
      [n_start_price |-> Some(5000)] }

ProcessStocks ==
    {Assign(Assign([s_name |-> <<"S", "h">>, s_ticker |-> s_ticker, s_isin |-> <<>>],
                   flag), cached) :
        s_ticker \in {<<>>, UserTicker}, flag \in NotFoundFlags, cached \in CachedFields}

ProcessDates == {Friday, Saturday, Sunday, NoSuchDay}

\* Provider behaviours for process_stock: the start window may also open
\* with a close of zero.
ProcessBehaviours ==
    [startHist : HistoryBehaviours \cup {Returns(<<0, 10>>)},
     endHist : HistoryBehaviours, info : InfoBehaviours]

InitProcess ==
    /\ pc = "process_stock"
    /\ MainAtRest
    /\ s_start_date \in ProcessDates
    /\ s_end_date \in ProcessDates
    /\ \E prov \in ProcessBehaviours : yf = (UserTicker :> prov)
    /\ \E dict_stock \in ProcessStocks : fn_args = Some([dict_stock |-> dict_stock])
    /\ fn_ret = None

CallProcess ==
    /\ pc = "process_stock"
    /\ fn_ret' = Some(process_stock(yf, fn_args[1].dict_stock, s_start_date, s_end_date))
    /\ pc' = "returned"
    /\ UNCHANGED <<main_vars, fn_args>>

NextProcess == CallProcess

SpecProcess == InitProcess /\ [][NextProcess]_vars

----------------------------------------------------------------------------
(* Properties of process_stock (SpecProcess) *)

StockArg == fn_args[1].dict_stock
Done == fn_ret[1]

MarkedNotFound == "b_not_found" \in DOMAIN StockArg /\ StockArg.b_not_found

HasCachedPrices ==
    /\ ~Absent(StockArg, "n_start_price")
    /\ ~Absent(StockArg, "n_end_price")
    /\ ~Absent(StockArg, "s_currency")

NoPricesInResult ==
    /\ Done.result.n_start_price = None
    /\ Done.result.n_end_price = None
    /\ Done.result.n_percentage = None

\* C13: for a stock marked not found or with an empty ticker, process_stock
\* returns (with any dates and any provider) the error "Stock details not
\* found", no prices, no percentage and no notes, and makes no provider
\* call, cached prices on the stock or not.
C13_NotFoundRecord ==
    (pc = "returned" /\ (MarkedNotFound \/ StockArg.s_ticker = <<>>)) =>
        /\ ~Done.raised
        /\ Done.result.s_error = "Stock details not found"
        /\ NoPricesInResult
        /\ Done.notes = <<>>
        /\ Done.calls = <<>>

\* C13 witness: a stock marked not found that has a ticker and all cached
\* prices, with a weekend start date.
C13_Witness ==
    /\ pc = "returned"
    /\ MarkedNotFound
    /\ StockArg.s_ticker # <<>>
    /\ HasCachedPrices
    /\ s_start_date = Saturday
    /\ Done.result.s_error = "Stock details not found"

\* The window a price query opens for each date of ProcessDates: the date
\* itself, or the Monday after a weekend date.
WindowStart(s_date) ==
    CASE s_date = Friday -> [Y |-> 2025, m |-> 1, d |-> 3]
      [] s_date = Saturday -> [Y |-> 2025, m |-> 1, d |-> 6]
      [] s_date = Sunday -> [Y |-> 2025, m |-> 4, d |-> 7]

IsPriceQuery(call, s_date) ==
    /\ call.op = "history"
    /\ call.ticker = StockArg.s_ticker
    /\ call.start = WindowStart(s_date)

\* C14: for a stock with a ticker, not marked not found, without all three
\* cached values, and dates that parse: the first provider call is the
\* start-window query at the adjusted start date and, once that returned
\* data, the second is the end-window query at the adjusted end date; if
\* the start window or then the end window comes back empty the record has
\* the error "Delisted", no prices and no percentage, and the currency was
\* never looked up.
C14_LiveFetch ==
    (/\ pc = "returned"
     /\ StockArg.s_ticker # <<>>
     /\ ~MarkedNotFound
     /\ ~HasCachedPrices
     /\ ValidDate(s_start_date)
     /\ ValidDate(s_end_date)) =>
        /\ Done.calls # <<>>
        /\ IsPriceQuery(Done.calls[1], s_start_date)
        /\ (~yf[UserTicker].startHist.raises /\ yf[UserTicker].startHist.value = <<>>) =>
             /\ ~Done.raised
             /\ Done.result.s_error = "Delisted"
             /\ NoPricesInResult
             /\ Len(Done.calls) = 1
        /\ (~yf[UserTicker].startHist.raises /\ yf[UserTicker].startHist.value # <<>>) =>
             /\ Len(Done.calls) >= 2
             /\ IsPriceQuery(Done.calls[2], s_end_date)
             /\ (~yf[UserTicker].endHist.raises /\ yf[UserTicker].endHist.value = <<>>) =>
                  /\ ~Done.raised
                  /\ Done.result.s_error = "Delisted"
                  /\ NoPricesInResult
                  /\ Len(Done.calls) = 2

\* C14 witness: a user-supplied ticker, Saturday to Sunday, whose start
\* window has data and whose end window is empty: "Delisted" after the two
\* price queries.
C14_Witness ==
    /\ pc = "returned"
    /\ StockArg.s_ticker # <<>>
    /\ ~MarkedNotFound
    /\ ~HasCachedPrices
    /\ s_start_date = Saturday
    /\ s_end_date = Sunday
    /\ ~Done.raised
    /\ Len(Done.calls) = 2
    /\ Done.result.s_error = "Delisted"


----------------------------------------------------------------------------
(* Properties of main's run (Spec): processing and output *)

IsWeekendDate(s_date) == s_date \in {Saturday, Sunday}

HasNote(notes, s_note) == \E n \in DOMAIN notes : notes[n].note = s_note

\* The stock that process event k handled.
StockOf(k) == list_dict_stocks[events[k].index]

\* C15: every stock process_stock returned a record for, with a non-empty
\* ticker and not marked not found, has in its returned notes a start note
\* when the start date falls on a weekend and an end note when the end date
\* does, and main's note list, which the output prints, holds them.
C15_EveryAdjustmentNoted ==
    \A k \in ProcessEvents :
        (/\ ~events[k].raised
         /\ StockOf(k).s_ticker # <<>>
         /\ ~GetOr(StockOf(k), "b_not_found", FALSE)) =>
            /\ IsWeekendDate(s_start_date) =>
                 /\ HasNote(events[k].notes, "Start date adjusted to")
                 /\ \E n \in DOMAIN list_s_notes :
                      /\ list_s_notes[n].note = "Start date adjusted to"
                      /\ list_s_notes[n].name = StockOf(k).s_name
            /\ IsWeekendDate(s_end_date) =>
                 /\ HasNote(events[k].notes, "End date adjusted to")
                 /\ \E n \in DOMAIN list_s_notes :
                      /\ list_s_notes[n].note = "End date adjusted to"
                      /\ list_s_notes[n].name = StockOf(k).s_name

\* C16: no call of process_stock ends in an exception, whatever the
\* provider did for the stock: main's loop is never left before the last
\* stock.
C16_PerStockFailureNeverStops ==
    /\ \A k \in ProcessEvents : ~events[k].raised
    /\ pc = "crash" => (events = <<>> \/ events[Len(events)].ev # "process")

FullyPopulated(dict_result) ==
    /\ dict_result.n_start_price # None
    /\ dict_result.n_end_price # None
    /\ dict_result.n_percentage # None
    /\ dict_result.s_currency # ""
    /\ dict_result.s_error = ""

ErrorOnly(dict_result) ==
    /\ dict_result.s_error # ""
    /\ dict_result.n_start_price = None
    /\ dict_result.n_end_price = None
    /\ dict_result.n_percentage = None

\* The records of a finished run: one per input stock, in input order, each
\* fully populated or carrying an error and no prices.
OneRecordPerStock ==
    /\ Len(list_dict_output) = Len(input_stocks)
    /\ \A i \in DOMAIN list_dict_output :
         /\ list_dict_output[i].s_name = input_stocks[i].s_name
         /\ list_dict_output[i].s_isin = input_stocks[i].s_isin
         /\ FullyPopulated(list_dict_output[i]) \/ ErrorOnly(list_dict_output[i])
         /\ ~(FullyPopulated(list_dict_output[i]) /\ ErrorOnly(list_dict_output[i]))

\* C17: a run whose resolution raised no ApiError ends (main does not exit
\* on ApiError) with one record per input stock, in input order, each
\* fully populated or carrying an error and no prices.
C17_OneRecordPerStock ==
    pc \in {"done", "crash"} => OneRecordPerStock


\* The request that failed, when main has exited on ApiError.
FailedRequest == events[Len(events)]

RateLimitFieldIs(s_field, s_header) ==
    error[1][s_field] = IF s_header \in DOMAIN FailedRequest.headers
                        THEN FailedRequest.headers[s_header]
                        ELSE "unknown"

\* C18: the error main reports tells the three failures apart: a transport
\* error reads "unreachable"; a 429 reads "rate limit exceeded", names the
\* endpoint and carries the values of the ratelimit-limit,
\* ratelimit-remaining and ratelimit-reset headers that are present
\* ("unknown" for one that is not); any other status reads "error status"
\* with the status code.
C18_FailureKinds ==
    pc = "exit" =>
        /\ IsRequest(FailedRequest)
        /\ error[1].exc = "ApiError"
        /\ FailedRequest.status = 0 => error[1].msg = "unreachable"
        /\ FailedRequest.status = 429 =>
             /\ error[1].msg = "rate limit exceeded"
             /\ error[1].endpoint = FailedRequest.ev
             /\ RateLimitFieldIs("limit", "ratelimit-limit")
             /\ RateLimitFieldIs("remaining", "ratelimit-remaining")
             /\ RateLimitFieldIs("reset", "ratelimit-reset")
        /\ FailedRequest.status \notin {0, 429} =>
             /\ error[1].msg = "error status"
             /\ error[1].status = FailedRequest.status

\* C18 witness: a search request answered 429 with the three rate-limit
\* headers, reported with their values.
C18_Witness ==
    /\ pc = "exit"
    /\ FailedRequest.ev = "search"
    /\ FailedRequest.status = 429
    /\ "ratelimit-reset" \in DOMAIN FailedRequest.headers
    /\ error[1].reset = "42"
    /\ error[1].limit = "25"
    /\ error[1].remaining = "0"


----------------------------------------------------------------------------
(* adjust_to_trading_day on its own (SpecAdjust): one call on a date       *)
(* string and a flag; the result is left in fn_ret.                        *)

\* Two-digit years on both sides of strptime's pivot, leap and common.
AdjustYears == {0, 24, 25, 68, 69, 99}

\* Every text of the shape dd-mmm-yy with these years, the days no month
\* has included.
AdjustDateStrings == [dd : 1..31, mon : 1..12, yy : AdjustYears]

InitAdjust ==
    /\ pc = "adjust"
    /\ MainAtRest
    /\ s_start_date = Friday
    /\ s_end_date = Friday
    /\ yf = <<>>
    /\ \E s_date \in AdjustDateStrings, b_return_flag \in BOOLEAN :
           fn_args = Some([s_date |-> s_date, b_return_flag |-> b_return_flag])
    /\ fn_ret = None

\* The call: ValueError from strptime for a string that is no date.
CallAdjust ==
    /\ pc = "adjust"
    /\ fn_ret' = Some(IF ValidDate(fn_args[1].s_date)
                      THEN Returns(adjust_to_trading_day(fn_args[1].s_date,
                                                         fn_args[1].b_return_flag))
                      ELSE Raises)
    /\ pc' = "returned"
    /\ UNCHANGED <<main_vars, fn_args>>

NextAdjust == CallAdjust

SpecAdjust == InitAdjust /\ [][NextAdjust]_vars

----------------------------------------------------------------------------
(* Properties of adjust_to_trading_day (SpecAdjust) *)

\* The calendar date a string denotes, and the calendar worked out without
\* ordinals: the day of the week by Sakamoto's rule (0 is Sunday, 6 is
\* Saturday) and the day after a date.
DateOf(s) == [Y |-> FullYear(s.yy), m |-> s.mon, d |-> s.dd]

DayOfWeek(c) ==
    LET y == IF c.m < 3 THEN c.Y - 1 ELSE c.Y
    IN  (y + (y \div 4) - (y \div 100) + (y \div 400)
           + <<0, 3, 2, 5, 0, 3, 5, 1, 4, 6, 2, 4>>[c.m] + c.d) % 7

DayAfter(c) ==
    IF c.d < DaysInMonth(c.Y, c.m) THEN [c EXCEPT !.d = c.d + 1]
    ELSE IF c.m < 12 THEN [c EXCEPT !.m = c.m + 1, !.d = 1]
    ELSE [Y |-> c.Y + 1, m |-> 1, d |-> 1]

ClaimedTradingDay(c) ==
    IF DayOfWeek(c) = 6 THEN DayAfter(DayAfter(c))
    ELSE IF DayOfWeek(c) = 0 THEN DayAfter(c)
    ELSE c

DateArg == fn_args[1].s_date
AdjustedDate == IF fn_args[1].b_return_flag THEN fn_ret[1].value[1] ELSE fn_ret[1].value

\* C19: for every date, the returned string denotes the date 2 days later
\* for a Saturday, 1 day later for a Sunday and the date itself for Monday
\* to Friday; with b_return_flag the result is the pair of that string and a
\* flag that is true exactly when the string differs from the input.
C19_WeekendToMonday ==
    (pc = "returned" /\ ValidDate(DateArg)) =>
        /\ ~fn_ret[1].raises
        /\ DateOf(AdjustedDate) = ClaimedTradingDay(DateOf(DateArg))
        /\ fn_args[1].b_return_flag =>
             fn_ret[1].value[2] = (fn_ret[1].value[1] # DateArg)

\* C19 witness: Sunday 31-Dec-00 is moved over the end of the year to
\* 01-Jan-01, and the flag says so.
C19_Witness ==
    /\ pc = "returned"
    /\ DateArg = [dd |-> 31, mon |-> 12, yy |-> 0]
    /\ DayOfWeek(DateOf(DateArg)) = 0
    /\ fn_args[1].b_return_flag
    /\ fn_ret[1] = Returns(<<[dd |-> 1, mon |-> 1, yy |-> 1], TRUE>>)

----------------------------------------------------------------------------
(* generate_output_filename on its own (SpecFilename): one call on an      *)
(* output directory; the returned name is left in fn_ret.                  *)

MaxVersion == 5

\* The names the directory may hold: the default one and the versions
\* 0..MaxVersion (version 0 is a name the search never tries).
OutputNames == {DEFAULT_OUTPUT_FILENAME} \cup {VersionedName(n) : n \in 0..MaxVersion}

InitFilename ==
    /\ pc = "filename"
    /\ MainAtRest
    /\ s_start_date = Friday
    /\ s_end_date = Friday
    /\ yf = <<>>
    /\ \E dir \in SUBSET OutputNames : fn_args = Some([dir |-> dir])
    /\ fn_ret = None

CallFilename ==
    /\ pc = "filename"
    /\ fn_ret' = Some(generate_output_filename(fn_args[1].dir))
    /\ pc' = "returned"
    /\ UNCHANGED <<main_vars, fn_args>>

NextFilename == CallFilename

SpecFilename == InitFilename /\ [][NextFilename]_vars

----------------------------------------------------------------------------
(* Properties of generate_output_filename (SpecFilename) *)

DirArg == fn_args[1].dir

\* C20: the returned name is the default one when that does not exist,
\* whatever versions do; otherwise it is version n for the least n >= 1
\* that does not exist.  It never names an existing file, and the search
\* ends within as many steps as the directory has files: n is at most the
\* number of files.
C20_FirstUnusedName ==
    pc = "returned" =>
        /\ fn_ret[1] \notin DirArg
        /\ DEFAULT_OUTPUT_FILENAME \notin DirArg => fn_ret[1] = DEFAULT_OUTPUT_FILENAME
        /\ DEFAULT_OUTPUT_FILENAME \in DirArg =>
             \E n \in 1..Cardinality(DirArg) :
                 /\ fn_ret[1] = VersionedName(n)
                 /\ \A k \in 1..(n - 1) : VersionedName(k) \in DirArg

\* C20 witness: the default name and versions 1, 2 and 4 exist, and
\* version 3 is returned.
C20_Witness ==
    /\ pc = "returned"
    /\ DirArg = {DEFAULT_OUTPUT_FILENAME, VersionedName(1), VersionedName(2), VersionedName(4)}
    /\ fn_ret[1] = VersionedName(3)

----------------------------------------------------------------------------
(* calculate_percentage_change on its own (SpecPercentage): one call on    *)
(* two prices; the result is left in fn_ret.                               *)

MaxPrice == 8

\* Prices of either sign and zero.
PercentagePrices == (0 - MaxPrice)..MaxPrice

\* The arguments are Python floats, whose division by zero raises
\* ZeroDivisionError, or numpy floats, which give inf or nan.
FloatKinds == {"float", "numpy.float64"}

InitPercentage ==
    /\ pc = "percentage"
    /\ MainAtRest
    /\ s_start_date = Friday
    /\ s_end_date = Friday
    /\ yf = <<>>
    /\ \E n_start_price \in PercentagePrices, n_end_price \in PercentagePrices,
          s_kind \in FloatKinds :
           fn_args = Some([n_start_price |-> n_start_price, n_end_price |-> n_end_price,
                           kind |-> s_kind])
    /\ fn_ret = None

CallPercentage ==
    /\ pc = "percentage"
    /\ fn_ret' = Some(IF fn_args[1].n_start_price = 0 /\ fn_args[1].kind = "float"
                      THEN Raises
                      ELSE Returns(calculate_percentage_change(fn_args[1].n_start_price,
                                                               fn_args[1].n_end_price)))
    /\ pc' = "returned"
    /\ UNCHANGED <<main_vars, fn_args>>

NextPercentage == CallPercentage

SpecPercentage == InitPercentage /\ [][NextPercentage]_vars

----------------------------------------------------------------------------
(* Properties of calculate_percentage_change (SpecPercentage) *)

StartArg == fn_args[1].n_start_price
EndArg == fn_args[1].n_end_price
Percentage == fn_ret[1].value

Sign(n) == IF n > 0 THEN 1 ELSE IF n < 0 THEN -1 ELSE 0

\* The fraction p is the number n_num / n_den.
IsQuotient(p, n_num, n_den) == p.den # 0 /\ p.num * n_den = n_num * p.den

\* C21: for a start price other than 0 the result is
\* (end - start) / start * 100; for a positive start price it is positive
\* when end > start, negative when end < start and 0 when end = start.
C21_PercentageChange ==
    (pc = "returned" /\ StartArg # 0) =>
        /\ ~fn_ret[1].raises
        /\ Percentage.finite
        /\ IsQuotient(Percentage, (EndArg - StartArg) * 100, StartArg)
        /\ StartArg > 0 =>
             Sign(Percentage.num) * Sign(Percentage.den) = Sign(EndArg - StartArg)

\* C21 witness: a fall from 4 to 3 is -25 per cent.
C21_Witness ==
    /\ pc = "returned"
    /\ StartArg = 4
    /\ EndArg = 3
    /\ IsQuotient(Percentage, -25, 1)

----------------------------------------------------------------------------
(* The exchange-qualified ticker on its own (SpecFullTicker): one data     *)
(* entry of a mapping response (ISIN branch) or one candidate of a search  *)
(* response (name branch) is processed; what was validated and what was    *)
(* returned is left in fn_ret.                                             *)

\* Raw tickers: without slashes, with one or two trailing ones, with one
\* inside, and nothing but a slash.
RawTickers ==
    {<<"N", "G">>, <<"N", "G", "/">>, <<"N", "G", "/", "/">>, <<"B", "/", "F">>,
     <<"B", "/", "F", "/">>, <<"/">>, <<>>}

\* Every code of DICT_EXCHANGE_SUFFIX, priority codes without a suffix,
\* and codes in neither list.
ExchangeCodes ==
    {"US", "UN", "UQ", "LN", "GY", "FP", "JP", "HK", "AU", "CN", "UM", "GF", "XX", ""}

ResolutionBranches == {"isin", "name"}

\* A provider that has prices for every ticker it is asked about.
ListsEverything ==
    [t \in {sanitise_ticker(r) \o map_exchange_to_suffix(c) :
               r \in RawTickers, c \in ExchangeCodes} |-> Listed(7000, 3500, "EUR")]

InitFullTicker ==
    /\ pc = "full_ticker"
    /\ MainAtRest
    /\ s_start_date = Friday
    /\ s_end_date = Tuesday
    /\ yf \in {<<>>, ListsEverything}
    /\ \E s_ticker_raw \in RawTickers, s_exchange_code \in ExchangeCodes,
          s_branch \in ResolutionBranches :
           fn_args = Some([branch |-> s_branch,
                           entry |-> Cand(s_ticker_raw, s_exchange_code, "Common Stock",
                                          "Common Stock", NameSH)])
    /\ fn_ret = None

\* Lines 691-737 for an element whose data is the entry; lines 529-561 for
\* a search response whose data is the entry.
CallFullTicker ==
    /\ pc = "full_ticker"
    /\ fn_ret' = Some(IF fn_args[1].branch = "isin"
                      THEN MappingElementResult(yf, [data |-> <<fn_args[1].entry>>],
                                                s_start_date, s_end_date)
                      ELSE resolve_ticker_with_prices(yf, [data |-> <<fn_args[1].entry>>],
                                                      <<"S", "h">>, s_start_date,
                                                      s_end_date))
    /\ pc' = "returned"
    /\ UNCHANGED <<main_vars, fn_args>>

NextFullTicker == CallFullTicker

SpecFullTicker == InitFullTicker /\ [][NextFullTicker]_vars

----------------------------------------------------------------------------
(* Properties of the exchange-qualified ticker (SpecFullTicker) *)

EntryArg == fn_args[1].entry

\* The suffix table as the claim gives it.
ClaimedSuffix(s_exchange_code) ==
    CASE s_exchange_code \in {"US", "UN", "UQ"} -> <<>>
      [] s_exchange_code = "LN" -> <<".", "L">>
      [] s_exchange_code = "GY" -> <<".", "D", "E">>
      [] s_exchange_code = "FP" -> <<".", "P", "A">>
      [] s_exchange_code = "JP" -> <<".", "T">>
      [] s_exchange_code = "HK" -> <<".", "H", "K">>
      [] s_exchange_code = "AU" -> <<".", "A", "X">>
      [] s_exchange_code = "CN" -> <<".", "T", "O">>
      [] OTHER -> <<>>

ClaimedQualifiedTicker == WithoutTrailingSlashes(EntryArg.ticker) \o ClaimedSuffix(EntryArg.exchCode)

\* The record the branch returned: the slot's result or the lookup's dict.
BranchResult == IF fn_args[1].branch = "isin" THEN fn_ret[1].result ELSE fn_ret[1].ret

\* C22: in both branches the ticker given to the validator, and the full
\* ticker of a resolved record, is the raw ticker without its trailing
\* slashes followed by the suffix of the exchange code in the table, and by
\* nothing for a code that is not in the table.
C22_QualifiedTicker ==
    pc = "returned" =>
        /\ \A k \in DOMAIN fn_ret[1].validated :
               fn_ret[1].validated[k].ticker = ClaimedQualifiedTicker
        /\ ~BranchResult.b_not_found =>
               /\ BranchResult.s_full_ticker = ClaimedQualifiedTicker
               /\ BranchResult.s_ticker = WithoutTrailingSlashes(EntryArg.ticker)

\* C22 witness: the name branch resolves the candidate NG// on GY to NG.DE.
C22_Witness ==
    /\ pc = "returned"
    /\ fn_args[1].branch = "name"
    /\ EntryArg.ticker = <<"N", "G", "/", "/">>
    /\ EntryArg.exchCode = "GY"
    /\ ~BranchResult.b_not_found
    /\ BranchResult.s_full_ticker = <<"N", "G", ".", "D", "E">>
    /\ Len(fn_ret[1].validated) = 1

----------------------------------------------------------------------------
(* Properties of main's run (Spec): the caller's stock list *)

\* C23: once resolve_all_tickers has returned, every record of the input
\* list holds the name, ticker and ISIN it held before the call and no
\* other field.
C23_InputImmutable ==
    pc \in {"process", "done"} => list_dict_stocks = input_stocks

\* A lookup of stock i has completed: its result slot is written.
LookupCompleted(i) ==
    /\ list_dict_results[i] # Placeholder
    /\ ~list_dict_results[i].b_skipped

\* C26: when resolve_all_tickers raised ApiError, the stock list is as it
\* was before the call, whatever lookups had completed.
C26_ApiErrorLeavesStocks ==
    pc = "exit" => list_dict_stocks = input_stocks

\* C26 witness: the ApiError came after a lookup had resolved a stock and
\* another had found nothing.
C26_Witness ==
    /\ pc = "exit"
    /\ list_dict_stocks = input_stocks
    /\ \E i \in DOMAIN list_dict_results :
           LookupCompleted(i) /\ ~list_dict_results[i].b_not_found
    /\ \E i \in DOMAIN list_dict_results :
           LookupCompleted(i) /\ list_dict_results[i].b_not_found

----------------------------------------------------------------------------
(* Properties of the selector (SpecSelect): the order of validation *)

\* Positions of the candidates that pass the three filters.
Passing == {p \in DOMAIN ApiResults : PassesAll(ApiResults[p])}

ValidatedAt(k) == Validated[k].pos

----------------------------------------------------------------------------
(* Properties of main's run (Spec): the schedule of requests and sleeps *)

RequestEvents == MappingEvents \cup SearchEvents
SleepEvents == {k \in DOMAIN events : events[k].ev = "sleep"}

\* The last request before event k (0 if there is none).
RequestBefore(k) ==
    IF \E i \in RequestEvents : i < k
    THEN CHOOSE i \in RequestEvents : i < k /\ \A j \in RequestEvents : j < k => j <= i
    ELSE 0

\* The next request is still to be made.
RequestPending == pc \in {"mapping", "search"}

\* C25: every sleep follows a request, lasts 2.5 s after a mapping request
\* and 13.0 s after a search request (delays in tenths of a second), and is
\* followed by another request; there is one sleep between two requests
\* that follow each other, and none after the last request of the run.
C25_SleepOnlyBetweenRequests ==
    /\ \A k \in SleepEvents :
         /\ RequestBefore(k) # 0
         /\ \A j \in SleepEvents : j # k => RequestBefore(j) # RequestBefore(k)
         /\ events[k].delay = IF events[RequestBefore(k)].ev = "mapping" THEN 25 ELSE 130
         /\ RequestPending \/ \E j \in RequestEvents : j > k
    /\ \A i \in RequestEvents :
         (\E j \in RequestEvents : j > i) => \E k \in SleepEvents : RequestBefore(k) = i

\* C25 witness: resolution has returned after a mapping request, a sleep of
\* 2.5 s, a search request, a sleep of 13.0 s and a last search request,
\* which no sleep follows.
C25_Witness ==
    /\ pc = "merge"
    /\ Cardinality(MappingEvents) = 1
    /\ Cardinality(SearchEvents) = 2
    /\ \E k \in SleepEvents : events[k].delay = 25
    /\ \E k \in SleepEvents : events[k].delay = 130
    /\ Cardinality(SleepEvents) = 2
    /\ \A k \in SleepEvents : \E j \in SearchEvents : j > k

\* The name-only stocks in input order, as positions in the input.
NamePositions == [k \in 1..Cardinality(NameStocks) |->
                     CHOOSE i \in NameStocks : Cardinality({j \in NameStocks : j < i}) = k - 1]

\* The search requests made so far, in the order they were made.
SearchLog == SelectSeq(events, LAMBDA e : e.ev = "search")

ResolutionReturned == pc \in {"merge", "process", "done"}

\* C27: every mapping request comes before every search request; the k-th
\* search request is for the k-th name-only stock of the input, by its
\* name, and when the lookup has returned there was one for each of them;
\* when no stock is without a ticker there is no request and no sleep.
C27_RequestOrder ==
    /\ \A i \in MappingEvents : \A j \in SearchEvents : i < j
    /\ Len(SearchLog) <= Len(NamePositions)
    /\ \A k \in DOMAIN SearchLog :
         /\ SearchLog[k].index = NamePositions[k]
         /\ SearchLog[k].query = input_stocks[NamePositions[k]].s_name
    /\ ResolutionReturned => Len(SearchLog) = Len(NamePositions)
    /\ (\A i \in DOMAIN input_stocks : HasTicker(i)) =>
           RequestEvents = {} /\ SleepEvents = {}

\* C27 witness: the lookup has returned for an input whose first stock is
\* name-only and stands before an ISIN stock and another name-only stock;
\* the mapping request was made first, then the two searches.
C27_Witness ==
    /\ pc = "merge"
    /\ 1 \in NameStocks
    /\ \E i \in IsinStocks : \E n \in NameStocks : 1 < i /\ i < n
    /\ MappingEvents # {}
    /\ Len(SearchLog) = 2
    /\ SearchLog[1].index = 1

----------------------------------------------------------------------------
(* Properties of main's run (Spec): the slots a mapping response writes *)

\* The input positions of the stocks queried in batch n (0-based).
BatchStocks(n) ==
    {list_n_isin_indices[k] :
        k \in (n * 10 + 1)..Min(n * 10 + 10, Len(list_n_isin_indices))}

\* C28: a pass of the batch loop changes only result slots of the stocks
\* queried in its batch, and does not end in an IndexError.
C28_WritesOnlyOwnBatch ==
    [][pc = "mapping" =>
          /\ pc' # "crash"
          /\ \A i \in DOMAIN list_dict_results :
                 list_dict_results'[i] # list_dict_results[i] => i \in BatchStocks(n_batch_index)
      ]_vars

----------------------------------------------------------------------------
(* Properties of main's run (Spec): the states of a result record *)

\* The result records written so far (a slot not yet written holds None).
ResultRecords == {i \in DOMAIN list_dict_results : list_dict_results[i] # Placeholder}

IsSkippedRecord(r) ==
    /\ r.b_skipped
    /\ ~r.b_not_found
    /\ r.n_start_price = None
    /\ r.n_end_price = None

IsNotFoundRecord(r) == r.b_not_found /\ ~r.b_skipped

IsResolvedRecord(r) ==
    /\ ~r.b_not_found
    /\ ~r.b_skipped
    /\ r.n_start_price # None
    /\ r.n_end_price # None
    /\ r.s_full_ticker = r.s_ticker \o ClaimedSuffix(r.s_exchange_code)

\* C29: every result record is skipped, not found or resolved as the claim
\* describes these, and in one of them only.
C29_ThreeStates ==
    \A i \in ResultRecords :
        /\ \/ IsSkippedRecord(list_dict_results[i])
           \/ IsNotFoundRecord(list_dict_results[i])
           \/ IsResolvedRecord(list_dict_results[i])
        /\ ~(list_dict_results[i].b_skipped /\ list_dict_results[i].b_not_found)

\* C29 witness: the lookup has returned a skipped record, a not-found
\* record and a resolved record whose full ticker has a suffix.
C29_Witness ==
    /\ pc = "merge"
    /\ \E i \in ResultRecords : IsSkippedRecord(list_dict_results[i])
    /\ \E i \in ResultRecords : IsNotFoundRecord(list_dict_results[i])
    /\ \E i \in ResultRecords :
           /\ IsResolvedRecord(list_dict_results[i])
           /\ list_dict_results[i].s_full_ticker # list_dict_results[i].s_ticker

----------------------------------------------------------------------------
(* Properties of adjust_to_trading_day (SpecAdjust): weekends and          *)
(* repetition                                                              *)

\* The calendar dates d, d + 1 and d + 2.
UpToTwoDaysLater(c) == {c, DayAfter(c), DayAfter(DayAfter(c))}

\* C30: for every date the returned string denotes a Monday-to-Friday date
\* that is the input date or 1 or 2 days after it, and adjusting the
\* returned string again returns it unchanged.
C30_IdempotentWeekday ==
    (pc = "returned" /\ ValidDate(DateArg)) =>
        /\ DayOfWeek(DateOf(AdjustedDate)) \in 1..5
        /\ DateOf(AdjustedDate) \in UpToTwoDaysLater(DateOf(DateArg))
        /\ ValidDate(AdjustedDate)
        /\ adjust_to_trading_day(AdjustedDate, FALSE) = AdjustedDate
        /\ adjust_to_trading_day(AdjustedDate, TRUE) = <<AdjustedDate, FALSE>>

\* C30 witness: Saturday 30-Nov-24 is moved to Monday 02-Dec-24, which a
\* second adjustment leaves alone.
C30_Witness ==
    /\ pc = "returned"
    /\ DateArg = [dd |-> 30, mon |-> 11, yy |-> 24]
    /\ DayOfWeek(DateOf(DateArg)) = 6
    /\ ~fn_args[1].b_return_flag
    /\ AdjustedDate = [dd |-> 2, mon |-> 12, yy |-> 24]
    /\ adjust_to_trading_day(AdjustedDate, FALSE) = AdjustedDate

====
